---- MODULE Spec2Model ----
(***************************************************************************)
(* DocTura segmentation and validation engine.                             *)
(*                                                                         *)
(* A cell is a Python str, modelled as a sequence of one-character         *)
(* strings over Latin-1 (U+0000 to U+00FF); a row is a sequence of cells;  *)
(* a fragment is a record [page, data]; an optional value is None or       *)
(* Some(v).  A float is an IEEE 754 binary64 value.                        *)
(***************************************************************************)
EXTENDS Integers, Sequences, FiniteSets, TLC

VARIABLES
    fragments,   \* all_tables: the fragments handed to the segmenter
    strategy,    \* the strategy tag handed to segment_tables
    domains,     \* score_domains argument: None or Some(sequence of ScoreDomain)
    tables,      \* the tables of the last segmenter call / handed to the validator
    names,       \* table_names argument of validate_tables: None or Some(sequence)
    report,      \* the ValidationReport being built or returned
    tolerance,   \* TableValidator.tolerance, an exact decimal
    error,       \* "none", or the exception a call raised
    pc,          \* which call has completed
    plugins,             \* PluginRegistry.plugins, in registration order
    min_confidence,      \* min_confidence argument of detect_plugin
    plugin_result,       \* what detect_plugin returned: None or Some(...)
    selected_files,      \* MainWindow.selected_files
    current_file_index,  \* MainWindow.current_file_index
    convert_enabled,     \* whether convert_btn is enabled
    workers,             \* every ConversionWorker started so far, with its state
    completions,         \* how many times _conversion_complete has run
    conversion_options,  \* MainWindow.conversion_options: None or Some(options object)
    xlsx_check,          \* whether the checkbox Excel (XLSX) is checked
    docx_check,          \* whether the checkbox Word (DOCX) is checked
    csv_check,           \* whether the checkbox CSV is checked
    portrait_radio,      \* whether Portrait is checked, Landscape otherwise
    excel_layout_combo,  \* currentData of the combo box: an ExcelLayoutMode
    corporate_radio,     \* whether Corporate Theme is checked, Indigenous otherwise
    current_theme,       \* MainWindow.current_theme: a ThemeType
    settings_changed,    \* how many times the user has changed one of these widgets
    process,             \* the interpreter running the call: hash seed and clock
    document,            \* the input file of convert_document: suffix and raw tables
    options,             \* the ExtractionOptions of convert_document
    page_tables,         \* the page-preserved tables of convert_document
    result,              \* the ConversionResult: success, output_files, metadata
    audit_log            \* the entries of the controller's AuditLogger, None without one

\* the profile registry and its last detection
registry == <<plugins, min_confidence, plugin_result>>

\* the main window and its workers
window ==
    <<selected_files, current_file_index, convert_enabled, workers, completions,
      conversion_options, xlsx_check, docx_check, csv_check, portrait_radio,
      excel_layout_combo, corporate_radio, current_theme, settings_changed>>

\* one call of convert_document and the controller's audit log
conversion == <<document, options, page_tables, result, audit_log>>

vars == <<fragments, strategy, domains, tables, names, report, tolerance, error, pc,
          registry, window, process, conversion>>

----------------------------------------------------------------------------
(* Optional values *)

None == [some |-> FALSE]
Some(v) == [some |-> TRUE, val |-> v]

----------------------------------------------------------------------------
(* Python str operations on cells *)

\* the characters str.strip() removes (str.isspace): tab, line feed, vertical
\* tab, form feed, carriage return, the separators U+001C to U+001F, space,
\* U+0085, U+00A0 and U+1680; the spaces from U+2000 on cannot be written in a
\* string of this language and the cells of the model never hold them
Whitespace ==
    {" ", "\t", "\n", "", "\f", "\r", "", "", "", "", "", " ", " "}
Digits == {"0", "1", "2", "3", "4", "5", "6", "7", "8", "9"}

DigitVal(c) ==
    CASE c = "0" -> 0 [] c = "1" -> 1 [] c = "2" -> 2 [] c = "3" -> 3
      [] c = "4" -> 4 [] c = "5" -> 5 [] c = "6" -> 6 [] c = "7" -> 7
      [] c = "8" -> 8 [] c = "9" -> 9

\* the cased letters of Latin-1 (U+0000 to U+00FF) that map one to one
LowerLetters ==
    <<"a", "b", "c", "d", "e", "f", "g", "h", "i", "j", "k", "l", "m", "n",
      "o", "p", "q", "r", "s", "t", "u", "v", "w", "x", "y", "z", "à", "á",
      "â", "ã", "ä", "å", "æ", "ç", "è", "é", "ê", "ë", "ì", "í", "î", "ï",
      "ð", "ñ", "ò", "ó", "ô", "õ", "ö", "ø", "ù", "ú", "û", "ü", "ý", "þ">>
UpperLetters ==
    <<"A", "B", "C", "D", "E", "F", "G", "H", "I", "J", "K", "L", "M", "N",
      "O", "P", "Q", "R", "S", "T", "U", "V", "W", "X", "Y", "Z", "À", "Á",
      "Â", "Ã", "Ä", "Å", "Æ", "Ç", "È", "É", "Ê", "Ë", "Ì", "Í", "Î", "Ï",
      "Ð", "Ñ", "Ò", "Ó", "Ô", "Õ", "Ö", "Ø", "Ù", "Ú", "Û", "Ü", "Ý", "Þ">>
CasedLetters == Len(LowerLetters)
\* the capital of each small letter and the small letter of each capital
Capitals ==
    [c \in {LowerLetters[i] : i \in 1..CasedLetters} |->
        UpperLetters[CHOOSE i \in 1..CasedLetters : LowerLetters[i] = c]]
Smalls ==
    [c \in {UpperLetters[i] : i \in 1..CasedLetters} |->
        LowerLetters[CHOOSE i \in 1..CasedLetters : UpperLetters[i] = c]]

\* str.upper() on one character: the characters it yields.  The sharp s gives
\* two letters, the micro sign the Greek capital mu, and y with diaeresis the
\* capital U+0178, written "U+0178" because the lexer rejects the character
UpperChar(c) ==
    IF c \in DOMAIN Capitals THEN <<Capitals[c]>>
    ELSE IF c = "ß" THEN <<"S", "S">>
    ELSE IF c = "µ" THEN <<"Μ">>
    ELSE IF c = "ÿ" THEN <<"U+0178">>
    ELSE <<c>>
\* str.lower() on one character
LowerChar(c) == IF c \in DOMAIN Smalls THEN Smalls[c] ELSE c

RECURSIVE upper(_)
upper(s) == IF s = <<>> THEN <<>> ELSE UpperChar(s[1]) \o upper(Tail(s))
lower(s) == [i \in 1..Len(s) |-> LowerChar(s[i])]

\* s without its leading and trailing characters of the set spaces
stripped(s, spaces) ==
    LET keep == {i \in 1..Len(s) : s[i] \notin spaces}
    IN IF keep = {} THEN <<>>
       ELSE LET lo == CHOOSE i \in keep : \A j \in keep : i <= j
                hi == CHOOSE i \in keep : \A j \in keep : i >= j
            IN SubSeq(s, lo, hi)

\* str.strip(): drop leading and trailing whitespace
strip(s) == stripped(s, Whitespace)

\* str.replace(c, "")
remove(s, c) == SelectSeq(s, LAMBDA x : x # c)

\* needle in haystack (substring test)
contains(haystack, needle) ==
    \E i \in 0..(Len(haystack) - Len(needle)) :
        SubSeq(haystack, i + 1, i + Len(needle)) = needle

----------------------------------------------------------------------------
(* Exact decimals [num, den], den a power of ten: the literals of the      *)
(* source (0.01, 0.5, 0.7, 100)                                             *)

GapThreshold == 5
NumericTenths == 7
DistributionMatches == 2

RECURSIVE Pow10(_)
Pow10(k) == IF k = 0 THEN 1 ELSE 10 * Pow10(k - 1)

Int2Num(n) == [num |-> n, den |-> 1]
NumLe(a, b) == a.num * b.den <= b.num * a.den
NumLt(a, b) == a.num * b.den < b.num * a.den

----------------------------------------------------------------------------
(* Python float arithmetic: IEEE 754 binary64, round to nearest, ties to    *)
(* even.  A natural of any size is its sequence of limbs (digits to the     *)
(* base 2^15), most significant first, <<>> for 0.  A finite double is      *)
(* [kind, sign, m, e] for sign * m * 2^e with m odd, or m = <<>> for the    *)
(* zero of that sign; the infinities and nan have their own kind.           *)

MantissaBits == 53
\* the largest power of two of a finite double, the power of the smallest one
MaxExponent == 1023
MinExponent == -1074
LimbBits == 15
Base == 2 ^ LimbBits

RECURSIVE Limbs(_)
Limbs(n) == IF n = 0 THEN <<>> ELSE Append(Limbs(n \div Base), n % Base)

RECURSIVE TrimLeading(_)
TrimLeading(a) == IF a = <<>> \/ a[1] # 0 THEN a ELSE TrimLeading(Tail(a))

Zeros(k) == [i \in 1..k |-> 0]
Pad(a, w) == Zeros(w - Len(a)) \o a
Front(a) == SubSeq(a, 1, Len(a) - 1)
Max(x, y) == IF x >= y THEN x ELSE y
Min(x, y) == IF x <= y THEN x ELSE y

\* the number of bits of a
BitLen(a) ==
    IF a = <<>> THEN 0
    ELSE LimbBits * (Len(a) - 1) + CHOOSE k \in 1..LimbBits : 2 ^ (k - 1) <= a[1] /\ a[1] < 2 ^ k

BigLt(a, b) ==
    \/ Len(a) < Len(b)
    \/ /\ Len(a) = Len(b)
       /\ \E i \in 1..Len(a) : a[i] < b[i] /\ \A j \in 1..(i - 1) : a[j] = b[j]

\* the loop of a + b from the least significant limb: st.a and st.b are the
\* limbs left (of one width), st.c the carry, st.out the limbs of the sum
RECURSIVE AddLoop(_)
AddLoop(st) ==
    IF st.a = <<>> THEN <<st.c>> \o st.out
    ELSE AddLoop([a |-> Front(st.a), b |-> Front(st.b),
                  c |-> (st.a[Len(st.a)] + st.b[Len(st.b)] + st.c) \div Base,
                  out |-> <<(st.a[Len(st.a)] + st.b[Len(st.b)] + st.c) % Base>> \o st.out])

BigAdd(a, b) ==
    TrimLeading(AddLoop([a |-> Pad(a, Max(Len(a), Len(b))),
                         b |-> Pad(b, Max(Len(a), Len(b))), c |-> 0, out |-> <<>>]))

\* the loop of a - b for a >= b, st.c being the borrow
RECURSIVE SubLoop(_)
SubLoop(st) ==
    IF st.a = <<>> THEN st.out
    ELSE SubLoop([a |-> Front(st.a), b |-> Front(st.b),
                  c |-> IF st.a[Len(st.a)] - st.b[Len(st.b)] - st.c < 0 THEN 1 ELSE 0,
                  out |-> <<(st.a[Len(st.a)] - st.b[Len(st.b)] - st.c + Base) % Base>>
                          \o st.out])

BigSub(a, b) ==
    TrimLeading(SubLoop([a |-> a, b |-> Pad(b, Len(a)), c |-> 0, out |-> <<>>]))

\* a * 2^r for r < LimbBits: each limb keeps its low part and takes the high
\* part of the limb to its right
ShiftBits(a, r) ==
    TrimLeading([i \in 1..(Len(a) + 1) |->
        (IF i = 1 THEN 0 ELSE (a[i - 1] * 2 ^ r) % Base)
        + (IF i > Len(a) THEN 0 ELSE (a[i] * 2 ^ r) \div Base)])

\* a * 2^s
ShiftLeft(a, s) ==
    IF a = <<>> THEN <<>>
    ELSE ShiftBits(a, s % LimbBits) \o Zeros(s \div LimbBits)

\* a \div 2^r for r < LimbBits
UnshiftBits(a, r) ==
    TrimLeading([i \in 1..Len(a) |->
        a[i] \div 2 ^ r
        + (IF i = 1 THEN 0 ELSE (a[i - 1] % 2 ^ r) * 2 ^ (LimbBits - r))])

\* a \div 2^s
ShiftRight(a, s) ==
    IF s \div LimbBits >= Len(a) THEN <<>>
    ELSE UnshiftBits(SubSeq(a, 1, Len(a) - s \div LimbBits), s % LimbBits)

\* a % 2^s # 0
LowBits(a, s) ==
    \/ \E i \in 1..Len(a) : i > Len(a) - s \div LimbBits /\ a[i] # 0
    \/ /\ s \div LimbBits < Len(a)
       /\ a[Len(a) - s \div LimbBits] % 2 ^ (s % LimbBits) # 0

Odd(a) == a # <<>> /\ a[Len(a)] % 2 = 1

\* the loop of a * b by the limbs of b from the most significant: st.b are
\* the limbs left, st.acc the product so far; a * limb is the sum of its
\* low limbs and its high limbs
LimbProduct(a, limb) ==
    BigAdd([i \in 1..Len(a) |-> (a[i] * limb) % Base],
           [i \in 1..Len(a) |-> (a[i] * limb) \div Base] \o <<0>>)

RECURSIVE MulLoop(_, _)
MulLoop(a, st) ==
    IF st.b = <<>> THEN st.acc
    ELSE MulLoop(a, [b |-> Tail(st.b),
                     acc |-> BigAdd(ShiftLeft(st.acc, LimbBits), LimbProduct(a, st.b[1]))])

BigMul(a, b) == MulLoop(a, [b |-> b, acc |-> <<>>])

\* the loop of the long division by d <= Base from the most significant
\* limb: st.a are the limbs left, st.q the quotient so far, st.r the remainder
RECURSIVE DivLoop(_, _)
DivLoop(st, d) ==
    IF st.a = <<>> THEN [q |-> TrimLeading(st.q), r |-> st.r]
    ELSE DivLoop([a |-> Tail(st.a),
                  q |-> Append(st.q, (st.r * Base + st.a[1]) \div d),
                  r |-> (st.r * Base + st.a[1]) % d], d)

\* a divided by d <= Base: quotient q and remainder r
DivSmall(a, d) == DivLoop([a |-> a, q |-> <<>>, r |-> 0], d)

\* q divided by d with the flag r of a remainder dropped before
DivFlagged(q, r, d) ==
    [q |-> DivSmall(q, d).q,
     r |-> IF r # 0 \/ DivSmall(q, d).r # 0 THEN 1 ELSE 0]

\* a divided by the power of ten den, r # 0 if a remainder was dropped
RECURSIVE DivPow10(_, _)
DivPow10(x, den) ==
    IF den = 1 THEN x ELSE DivPow10(DivFlagged(x.q, x.r, 10), den \div 10)

\* the powers of ten are taken four at a time: 10^4 < Base
TensAtOnce == 4

\* a divided by 10^k, r # 0 if a remainder was dropped; nothing is left to
\* divide once the quotient is 0
RECURSIVE DivTens(_, _)
DivTens(x, k) ==
    IF k = 0 \/ x.q = <<>> THEN x
    ELSE DivTens(DivFlagged(x.q, x.r, 10 ^ Min(k, TensAtOnce)), k - Min(k, TensAtOnce))

\* a * 10^k
RECURSIVE TimesTens(_, _)
TimesTens(a, k) ==
    IF k = 0 \/ a = <<>> THEN a
    ELSE TimesTens(LimbProduct(a, 10 ^ Min(k, TensAtOnce)), k - Min(k, TensAtOnce))

\* the natural a sequence of limbs stands for
RECURSIVE LimbsVal(_)
LimbsVal(a) == IF a = <<>> THEN 0 ELSE LimbsVal(Front(a)) * Base + a[Len(a)]

\* the number of zero limbs at the end of a # 0
ZeroLimbs(a) ==
    CHOOSE z \in 0..(Len(a) - 1) :
        a[Len(a) - z] # 0 /\ \A j \in 1..z : a[Len(a) - j + 1] = 0

\* the number of zero bits at the end of the limb x # 0
ZeroBits(x) == CHOOSE k \in 0..(LimbBits - 1) : x % 2 ^ k = 0 /\ x % 2 ^ (k + 1) # 0

\* the number of zero bits at the end of a # 0
TrailingZeros(a) == LimbBits * ZeroLimbs(a) + ZeroBits(a[Len(a) - ZeroLimbs(a)])

Zero(sign) == [kind |-> "finite", sign |-> sign, m |-> <<>>, e |-> 0]
Inf(sign) == [kind |-> "inf", sign |-> sign, m |-> <<>>, e |-> 0]
NaN == [kind |-> "nan", sign |-> 1, m |-> <<>>, e |-> 0]
IsNaN(x) == x.kind = "nan"

\* sign * m * 2^e with the last z bits of m, all zero, moved into e
Shifted(sign, m, e, z) ==
    [kind |-> "finite", sign |-> sign, m |-> ShiftRight(m, z), e |-> e + z]

\* sign * m * 2^e with the trailing zeros of m moved into e
Double(sign, m, e) ==
    IF m = <<>> THEN Zero(sign) ELSE Shifted(sign, m, e, TrailingZeros(m))

\* m with its last k bits rounded away, to nearest and ties to even
RoundAway(m, k, sticky) ==
    IF /\ Odd(ShiftRight(m, k - 1))
       /\ (sticky \/ LowBits(m, k - 1) \/ Odd(ShiftRight(m, k)))
    THEN BigAdd(ShiftRight(m, k), <<1>>)
    ELSE ShiftRight(m, k)

\* the bits of m * 2^e a double cannot hold: those beyond the mantissa, and
\* those below the smallest power of two
Dropped(m, e) == Max(BitLen(m) - MantissaBits, MinExponent - e)

\* sign * m * 2^e for m of at most MantissaBits bits: infinite beyond the
\* largest finite double
Finite(sign, m, e) ==
    IF BitLen(m) + e - 1 > MaxExponent THEN Inf(sign) ELSE Double(sign, m, e)

\* the double nearest to sign * (m + t) * 2^e, where 0 < t < 1 if sticky and
\* t = 0 if not
Round(sign, m, e, sticky) ==
    IF Dropped(m, e) <= 0 THEN Finite(sign, m, e)
    ELSE Finite(sign, RoundAway(m, Dropped(m, e), sticky), e + Dropped(m, e))

\* the double of a quotient x.q * 2^(-s) with remainder flag x.r
RoundQuotient(sign, x, s) == Round(sign, x.q, -s, x.r # 0)

\* a * 2^s / den, with s making the quotient longer than a mantissa
ScaledQuotient(sign, a, den, s) ==
    RoundQuotient(sign, DivPow10([q |-> ShiftLeft(a, s), r |-> 0], den), s)

\* the double a decimal literal num/den stands for
binary(x) ==
    IF x.num = 0 THEN Zero(1)
    ELSE IF x.num < 0
    THEN ScaledQuotient(-1, Limbs(-x.num), x.den,
                        MantissaBits + 3 + BitLen(Limbs(x.den)) - BitLen(Limbs(-x.num)))
    ELSE ScaledQuotient(1, Limbs(x.num), x.den,
                        MantissaBits + 3 + BitLen(Limbs(x.den)) - BitLen(Limbs(x.num)))

\* |x| < |y|
MagLt(x, y) ==
    BigLt(ShiftLeft(x.m, x.e - Min(x.e, y.e)), ShiftLeft(y.m, y.e - Min(x.e, y.e)))

\* the sum of magnitudes a * 2^e and b * 2^e of signs sa and sb; opposite
\* equal magnitudes give +0
SignedSum(sa, a, sb, b, e) ==
    IF sa = sb THEN Round(sa, BigAdd(a, b), e, FALSE)
    ELSE IF a = b THEN Zero(1)
    ELSE IF BigLt(a, b) THEN Round(sb, BigSub(b, a), e, FALSE)
    ELSE Round(sa, BigSub(a, b), e, FALSE)

\* x + y, x - y, x * y, abs(x), x < y, x <= y, x == y on doubles
DAdd(x, y) ==
    IF IsNaN(x) \/ IsNaN(y) THEN NaN
    ELSE IF x.kind = "inf" THEN (IF y.kind = "inf" /\ y.sign # x.sign THEN NaN ELSE x)
    ELSE IF y.kind = "inf" THEN y
    ELSE SignedSum(x.sign, ShiftLeft(x.m, x.e - Min(x.e, y.e)),
                   y.sign, ShiftLeft(y.m, y.e - Min(x.e, y.e)), Min(x.e, y.e))
DNeg(x) == [x EXCEPT !.sign = IF IsNaN(x) THEN 1 ELSE -x.sign]
DSub(x, y) == DAdd(x, DNeg(y))
DMul(x, y) ==
    IF IsNaN(x) \/ IsNaN(y) THEN NaN
    ELSE IF x.kind = "inf" \/ y.kind = "inf"
    THEN (IF (x.kind = "finite" /\ x.m = <<>>) \/ (y.kind = "finite" /\ y.m = <<>>)
          THEN NaN ELSE Inf(x.sign * y.sign))
    ELSE Round(x.sign * y.sign, BigMul(x.m, y.m), x.e + y.e, FALSE)
DAbs(x) == [x EXCEPT !.sign = 1]
DLt(x, y) ==
    IF IsNaN(x) \/ IsNaN(y) THEN FALSE
    ELSE IF x.kind = "inf" THEN x.sign = -1 /\ ~(y.kind = "inf" /\ y.sign = -1)
    ELSE IF y.kind = "inf" THEN y.sign = 1
    ELSE IF x.m = <<>> /\ y.m = <<>> THEN FALSE
    ELSE IF x.m = <<>> THEN y.sign = 1
    ELSE IF y.m = <<>> THEN x.sign = -1
    ELSE IF x.sign # y.sign THEN x.sign < y.sign
    ELSE IF x.sign = 1 THEN MagLt(x, y) ELSE MagLt(y, x)
DLe(x, y) == ~IsNaN(x) /\ ~IsNaN(y) /\ ~DLt(y, x)
DEq(x, y) == DLe(x, y) /\ DLe(y, x)

\* float(n) of an integer n
FromInt(n) == IF n < 0 THEN Round(-1, Limbs(-n), 0, FALSE) ELSE Round(1, Limbs(n), 0, FALSE)

\* int(x) of a finite double: truncation toward zero
int(x) ==
    x.sign * LimbsVal(IF x.e >= 0 THEN ShiftLeft(x.m, x.e) ELSE ShiftRight(x.m, -x.e))

----------------------------------------------------------------------------
(* float(): [sign] (inf | infinity | nan | digits [. digits] [e [sign]      *)
(* digits]) after strip(), letters in either case, single underscores      *)
(* between digits; None stands for ValueError                               *)

\* digits, with single underscores between two digits
IsDigitPart(s) ==
    \A i \in 1..Len(s) :
        \/ s[i] \in Digits
        \/ /\ s[i] = "_" /\ 1 < i /\ i < Len(s)
           /\ s[i - 1] \in Digits /\ s[i + 1] \in Digits

RECURSIVE TrimZeros(_)
TrimZeros(d) == IF d # <<>> /\ d[1] = "0" THEN TrimZeros(Tail(d)) ELSE d

\* the natural of a digit sequence, as an integer and as limbs
RECURSIVE DigitsVal(_)
DigitsVal(s) ==
    IF s = <<>> THEN 0
    ELSE 10 * DigitsVal(SubSeq(s, 1, Len(s) - 1)) + DigitVal(s[Len(s)])

\* the loop over the digits from the first, TensAtOnce of them at a time:
\* st.d are the digits left, st.acc the limbs of those read
RECURSIVE DigitsLoop(_)
DigitsLoop(st) ==
    IF st.d = <<>> THEN st.acc
    ELSE DigitsLoop(
            [d |-> SubSeq(st.d, Min(Len(st.d), TensAtOnce) + 1, Len(st.d)),
             acc |-> BigAdd(LimbProduct(st.acc, 10 ^ Min(Len(st.d), TensAtOnce)),
                            Limbs(DigitsVal(SubSeq(st.d, 1, Min(Len(st.d), TensAtOnce)))))])

BigDigits(d) == DigitsLoop([d |-> d, acc |-> <<>>])

\* the bits a quotient by 10^(-e10) is shifted left by, to come out longer
\* than a mantissa
QuotientShift(n, e10) == Max(0, MantissaBits + 3 - 4 * e10 - BitLen(n))

\* the double nearest to sign * n * 10^e10 for the limbs n of a whole number
Scaled(sign, n, e10) ==
    RoundQuotient(sign,
        IF e10 >= 0 THEN [q |-> TimesTens(n, e10), r |-> 0]
        ELSE DivTens([q |-> ShiftLeft(n, QuotientShift(n, e10)), r |-> 0], -e10),
        IF e10 >= 0 THEN 0 ELSE QuotientShift(n, e10))

\* the double nearest to sign * d * 10^e10 for digits d without leading
\* zeros.  10^(n-1) <= d < 10^n for n digits, and 2^3 < 10, so 10^k >= 2^(3k)
\* for k >= 0 and 10^k < 2^(3k) for k < 0: the first two tests settle,
\* without the long arithmetic, the values beyond every finite double and
\* those below half the smallest one
nearest(sign, d, e10) ==
    IF d = <<>> THEN Zero(sign)
    ELSE IF 3 * (Len(d) + e10 - 1) > MaxExponent + 1 THEN Inf(sign)
    ELSE IF 3 * (Len(d) + e10) < MinExponent THEN Zero(sign)
    ELSE Scaled(sign, BigDigits(d), e10)

\* the value of exponent digits, cut off at seven digits, where every
\* double has long overflowed or vanished
cut_off(d) == DigitsVal(SubSeq(d, 1, Min(Len(d), 7)))

\* the exponent text: [sign] digits
exponent(text) ==
    IF text # <<>> /\ text[1] \in {"+", "-"}
    THEN IF Len(text) > 1 /\ IsDigitPart(Tail(text))
         THEN Some((IF text[1] = "-" THEN -1 ELSE 1)
                   * cut_off(TrimZeros(remove(Tail(text), "_"))))
         ELSE None
    ELSE IF text # <<>> /\ IsDigitPart(text)
         THEN Some(cut_off(TrimZeros(remove(text, "_"))))
         ELSE None

\* the mantissa text with its point at p (past the end without a point):
\* its digits and the number of them after the point
mantissa(text, p) ==
    IF /\ IsDigitPart(SubSeq(text, 1, p - 1))
       /\ IsDigitPart(SubSeq(text, p + 1, Len(text)))
       /\ Len(text) > (IF p <= Len(text) THEN 1 ELSE 0)
    THEN Some([digits |-> remove(SubSeq(text, 1, p - 1), "_")
                          \o remove(SubSeq(text, p + 1, Len(text)), "_"),
               scale |-> Len(remove(SubSeq(text, p + 1, Len(text)), "_"))])
    ELSE None

pointed(text) ==
    LET dots == {i \in 1..Len(text) : text[i] = "."}
    IN IF Cardinality(dots) > 1 THEN None
       ELSE IF dots = {} THEN mantissa(text, Len(text) + 1)
       ELSE mantissa(text, CHOOSE i \in dots : TRUE)

\* the value of a mantissa m and an exponent x, either of them None if
\* its text is no mantissa or no exponent
valued(sign, m, x) ==
    IF m.some /\ x.some
    THEN Some(nearest(sign, TrimZeros(m.val.digits),
                      x.val - m.val.scale))
    ELSE None

\* where the exponent of body starts: its first e or E, past the end
\* without one (a second one makes the exponent text no exponent)
exponent_mark(body) ==
    IF \E i \in 1..Len(body) : body[i] \in {"e", "E"}
    THEN CHOOSE i \in 1..Len(body) :
            /\ body[i] \in {"e", "E"}
            /\ \A j \in 1..(i - 1) : body[j] \notin {"e", "E"}
    ELSE Len(body) + 1

\* the text with its exponent starting at mark
marked(sign, body, mark) ==
    valued(sign, pointed(SubSeq(body, 1, mark - 1)),
           IF mark > Len(body) THEN Some(0)
           ELSE exponent(SubSeq(body, mark + 1, Len(body))))

\* the text in small letters: a special value, or a mantissa with an
\* optional exponent
named(sign, body, name) ==
    IF name \in {<<"i", "n", "f">>, <<"i", "n", "f", "i", "n", "i", "t", "y">>}
    THEN Some(Inf(sign))
    ELSE IF name = <<"n", "a", "n">> THEN Some(NaN)
    ELSE marked(sign, body, exponent_mark(body))

\* the unsigned text
unsigned(sign, body) == named(sign, body, lower(body))

\* the stripped literal t, with its optional sign
literal(t) ==
    unsigned(IF t # <<>> /\ t[1] = "-" THEN -1 ELSE 1,
             IF t # <<>> /\ t[1] \in {"+", "-"} THEN Tail(t) ELSE t)

\* the blanks float() itself skips around the literal: those of str.strip()
\* but the separators U+001C to U+001F
FloatSpace == Whitespace \ {"", "", "", ""}

\* float(s): None stands for ValueError
float(s) == literal(stripped(s, FloatSpace))

----------------------------------------------------------------------------
(* TableSegmenter: numbers *)

\* TableSegmenter._is_numeric
is_numeric(value) == float(strip(remove(value, ","))).some

\* TableSegmenter._extract_number
Segmenter_extract_number(value) == float(strip(remove(value, ",")))

----------------------------------------------------------------------------
(* Sequences *)

Range(s) == {s[i] : i \in 1..Len(s)}

\* the result of a call: the tables returned, or the exception raised
Returned(ts) == [error |-> "none", tables |-> ts]
Raised(e) == [error |-> e, tables |-> <<>>]

----------------------------------------------------------------------------
(* set() and sorted() on a list of floats.  A set is a hash table with open *)
(* addressing, 8 slots at first, and is iterated slot by slot; slots count  *)
(* from 0                                                                   *)

HashBits == 61
WordBits == 64
InfHash == 314159
SmallTableBits == 3
LinearProbes == 9
PerturbShift == 5
ResizeQuota == 50000

\* a % 2^s
Residue(a, s) == BigSub(a, ShiftLeft(ShiftRight(a, s), s))

\* a % (2^61 - 1): 2^61 leaves 1, so the high part is added to the low one
RECURSIVE Reduced(_)
Reduced(a) ==
    IF BitLen(a) > HashBits
    THEN Reduced(BigAdd(ShiftRight(a, HashBits), Residue(a, HashBits)))
    ELSE IF a = BigSub(ShiftLeft(<<1>>, HashBits), <<1>>) THEN <<>> ELSE a

\* the hash of |x|: m * 2^e modulo 2^61 - 1, where 2^(-1) is 2^60
magnitude_hash(x) ==
    IF x.kind = "inf" THEN Limbs(InfHash)
    ELSE Reduced(ShiftLeft(x.m, x.e % HashBits))

\* the hash with its sign as the unsigned word the table works with; -1 is
\* no hash and becomes -2
signed_hash(sign, h) ==
    IF sign = 1 \/ h = <<>> THEN h
    ELSE BigSub(ShiftLeft(<<1>>, WordBits), IF h = <<1>> THEN <<2>> ELSE h)

\* hash(x) of a float that is no nan; the hash of a nan comes from the
\* address of the object
float_hash(x) == signed_hash(x.sign, magnitude_hash(x))

EmptyTable(bits) == [bits |-> bits, fill |-> 0, slots |-> [i \in 1..(2 ^ bits) |-> None]]
Unused(so) == {j \in 0..(2 ^ so.bits - 1) : ~so.slots[j + 1].some}

\* the slots looked at from slot i on before the next jump
LinearRun(so, i) ==
    IF i + LinearProbes <= 2 ^ so.bits - 1 THEN i..(i + LinearProbes) ELSE {i}

\* the slot after a jump: (i * 5 + 1 + perturb) & mask
jump(so, i, perturb) ==
    (i * 5 + 1 + LimbsVal(Residue(perturb, so.bits))) % 2 ^ so.bits

\* the search of set_add_entry from slot i: the first slot that is unused or
\* holds a key equal to key
RECURSIVE lookup(_, _, _, _)
lookup(so, key, i, perturb) ==
    IF \E j \in LinearRun(so, i) : ~so.slots[j + 1].some \/ DEq(so.slots[j + 1].val, key)
    THEN CHOOSE j \in LinearRun(so, i) :
            /\ ~so.slots[j + 1].some \/ DEq(so.slots[j + 1].val, key)
            /\ \A k \in i..(j - 1) : so.slots[k + 1].some /\ ~DEq(so.slots[k + 1].val, key)
    ELSE lookup(so, key, jump(so, i, ShiftRight(perturb, PerturbShift)),
                ShiftRight(perturb, PerturbShift))

\* the search of set_insert_clean from slot i: the first unused slot
RECURSIVE first_unused(_, _, _)
first_unused(so, i, perturb) ==
    IF \E j \in LinearRun(so, i) : ~so.slots[j + 1].some
    THEN CHOOSE j \in LinearRun(so, i) :
            ~so.slots[j + 1].some /\ \A k \in i..(j - 1) : so.slots[k + 1].some
    ELSE first_unused(so, jump(so, i, ShiftRight(perturb, PerturbShift)),
                      ShiftRight(perturb, PerturbShift))

placed(so, key, j) == [so EXCEPT !.slots[j + 1] = Some(key), !.fill = @ + 1]

\* the keys in the order of iteration
keys_of(so) ==
    LET used == SelectSeq(so.slots, LAMBDA entry : entry.some)
    IN [i \in 1..Len(used) |-> used[i].val]

\* the slot of a number with hash h in a table without equal key
clean_slot(so, h) == first_unused(so, LimbsVal(Residue(h, so.bits)), h)

\* set_insert_clean: a nan goes to the slot its address gives, any unused one
insert_clean(so, key) ==
    IF IsNaN(key) THEN {placed(so, key, j) : j \in Unused(so)}
    ELSE {placed(so, key, clean_slot(so, float_hash(key)))}

\* the keys inserted one after the other into each table of sos
RECURSIVE reinserted(_, _)
reinserted(sos, keys) ==
    IF keys = <<>> THEN sos
    ELSE reinserted(UNION {insert_clean(so, keys[1]) : so \in sos}, Tail(keys))

\* the bits of the smallest table with more than minused slots
table_bits(minused) ==
    CHOOSE b \in SmallTableBits..30 :
        2 ^ b > minused /\ (b = SmallTableBits \/ 2 ^ (b - 1) <= minused)

\* the table after an insertion: a new table once fill * 5 >= mask * 3, with
\* the keys inserted in the order of their slots
resized(so) ==
    IF so.fill * 5 < (2 ^ so.bits - 1) * 3 THEN {so}
    ELSE reinserted({EmptyTable(table_bits(IF so.fill > ResizeQuota THEN so.fill * 2
                                            ELSE so.fill * 4))},
                    keys_of(so))

\* a number whose search ended at slot j: nothing to do if the slot holds
\* an equal key
added_at(so, key, j) ==
    IF so.slots[j + 1].some THEN {so} ELSE resized(placed(so, key, j))

number_slot(so, key, h) == lookup(so, key, LimbsVal(Residue(h, so.bits)), h)

\* set_add_entry: a float equal to one already in the set is not added.
\* -0.0 equals 0.0; a nan equals nothing, so every nan of the list is added,
\* at the slot its address gives
set_add(so, key) ==
    IF IsNaN(key) THEN UNION {resized(placed(so, key, j)) : j \in Unused(so)}
    ELSE added_at(so, key, number_slot(so, key, float_hash(key)))

RECURSIVE updated(_, _)
updated(sos, scores) ==
    IF scores = <<>> THEN sos
    ELSE updated(UNION {set_add(so, scores[1]) : so \in sos}, Tail(scores))

\* set(scores): the orders in which the set is iterated
set_orders(scores) ==
    {keys_of(so) : so \in updated({EmptyTable(SmallTableBits)}, scores)}

\* MIN_GALLOP and MAX_MINRUN of list.sort
MinGallop == 7
MaxMinrun == 64

\* merge_compute_minrun: r becomes 1 if any 1 bit is shifted off
RECURSIVE merge_compute_minrun(_, _)
merge_compute_minrun(n, r) ==
    IF n >= MaxMinrun THEN merge_compute_minrun(n \div 2, IF n % 2 = 1 THEN 1 ELSE r)
    ELSE n + r

\* count_run of list.sort: the index of the last element of the run that
\* starts the list, the first one whose successor breaks the run
run_end(L, descending) ==
    CHOOSE n \in 2..Len(L) :
        /\ n = Len(L) \/ ~(DLt(L[n + 1], L[n]) <=> descending)
        /\ \A k \in 2..(n - 1) : DLt(L[k + 1], L[k]) <=> descending

\* count_run: the length of the run that starts the list
count_run(L) == IF Len(L) = 1 THEN 1 ELSE run_end(L, DLt(L[2], L[1]))

reversed(L) == [i \in 1..Len(L) |-> L[Len(L) + 1 - i]]

\* binarysort of list.sort: where the pivot goes among the sorted L[1..r],
\* l and r counted from 0
RECURSIVE insertion_point(_, _, _, _)
insertion_point(L, pivot, l, r) ==
    IF l >= r THEN l
    ELSE IF DLt(pivot, L[l + (r - l) \div 2 + 1])
         THEN insertion_point(L, pivot, l, l + (r - l) \div 2)
         ELSE insertion_point(L, pivot, l + (r - l) \div 2 + 1, r)

inserted(L, start, at) ==
    SubSeq(L, 1, at) \o <<L[start + 1]>> \o SubSeq(L, at + 1, start)
    \o SubSeq(L, start + 2, Len(L))

RECURSIVE binarysort(_, _)
binarysort(L, start) ==
    IF start >= Len(L) THEN L
    ELSE binarysort(inserted(L, start, insertion_point(L, L[start + 1], 0, start)),
                    start + 1)

\* the run the main loop of list.sort pushes: the first force elements of
\* what remains, the natural run of n elements reversed if it descends and
\* the others inserted into it one by one
arranged(L, n, force) ==
    binarysort((IF Len(L) > 1 /\ DLt(L[2], L[1]) THEN reversed(SubSeq(L, 1, n))
                ELSE SubSeq(L, 1, n)) \o SubSeq(L, n + 1, force),
               n)

\* gallop_left looks for the first element not below the key (x < key goes
\* before it), gallop_right for the first element above it (x goes before
\* unless key < x)
goes_before(x, key, rightmost) == IF rightmost THEN ~DLt(key, x) ELSE DLt(x, key)

\* the offsets from a[hint] at which the galloping stops, upwards while the
\* elements go before the key, downwards while they do not
RECURSIVE galloped(_, _, _, _, _, _, _, _)
galloped(key, a, hint, rightmost, up, lastofs, ofs, maxofs) ==
    IF ofs < maxofs
       /\ (goes_before(a[hint + (IF up THEN ofs ELSE 0 - ofs) + 1], key, rightmost) <=> up)
    THEN galloped(key, a, hint, rightmost, up, ofs, 2 * ofs + 1, maxofs)
    ELSE [lastofs |-> lastofs, ofs |-> Min(ofs, maxofs)]

\* the offsets translated back to offsets from a[0]
gallop_up(g, hint) == [lastofs |-> g.lastofs + hint, ofs |-> g.ofs + hint]
gallop_down(g, hint) == [lastofs |-> hint - g.ofs, ofs |-> hint - g.lastofs]

\* the binary search between the offsets
RECURSIVE gallop_search(_, _, _, _, _)
gallop_search(key, a, rightmost, lastofs, ofs) ==
    IF lastofs >= ofs THEN ofs
    ELSE IF goes_before(a[lastofs + (ofs - lastofs) \div 2 + 1], key, rightmost)
         THEN gallop_search(key, a, rightmost, lastofs + (ofs - lastofs) \div 2 + 1, ofs)
         ELSE gallop_search(key, a, rightmost, lastofs, lastofs + (ofs - lastofs) \div 2)

gallop_between(key, a, rightmost, g) ==
    gallop_search(key, a, rightmost, g.lastofs + 1, g.ofs)

\* gallop_left and gallop_right: how many elements of a go before the key,
\* the search starting at a[hint], hint counted from 0
gallop(key, a, hint, rightmost) ==
    gallop_between(key, a, rightmost,
        IF goes_before(a[hint + 1], key, rightmost)
        THEN gallop_up(galloped(key, a, hint, rightmost, TRUE, 0, 1, Len(a) - hint), hint)
        ELSE gallop_down(galloped(key, a, hint, rightmost, FALSE, 0, 1, hint + 1), hint))

gallop_left(key, a, hint) == gallop(key, a, hint, FALSE)
gallop_right(key, a, hint) == gallop(key, a, hint, TRUE)

\* what a merge leaves: the merged elements and ms->min_gallop
MergeEnd(L, min_gallop) == [at |-> "end", list |-> L, min_gallop |-> min_gallop]

\* a merge at the top of the loop that takes one element at a time, and at
\* the top of the galloping loop: out is what has been written, a and b what
\* is left of the two runs
Straight(out, a, b, acount, bcount, min_gallop) ==
    [at |-> "straight", out |-> out, a |-> a, b |-> b, acount |-> acount,
     bcount |-> bcount, min_gallop |-> min_gallop]

Galloping(out, a, b, min_gallop) ==
    [at |-> "gallop", out |-> out, a |-> a, b |-> b, min_gallop |-> min_gallop]

\* min_gallop -= min_gallop > 1
less_gallop(min_gallop) == IF min_gallop > 1 THEN min_gallop - 1 ELSE min_gallop

\* merge_lo: a holds the elements of the first run still in the temporary
\* array, b the elements of the second run still in place.  The label
\* Succeed leaves out, a, b and the label CopyB out, b, a

\* the galloping loop after gallop_left has found k elements of b
lo_took_b(out, a, b, min_gallop, acount, k) ==
    IF Len(b) = k THEN MergeEnd(out \o b \o a, min_gallop)
    ELSE IF Len(a) = 2
    THEN MergeEnd(out \o SubSeq(b, 1, k) \o <<a[1]>> \o SubSeq(b, k + 1, Len(b)) \o <<a[2]>>,
                  min_gallop)
    ELSE IF acount >= MinGallop \/ k >= MinGallop
    THEN Galloping(out \o SubSeq(b, 1, k) \o <<a[1]>>, Tail(a), SubSeq(b, k + 1, Len(b)),
                   less_gallop(min_gallop))
    ELSE Straight(out \o SubSeq(b, 1, k) \o <<a[1]>>, Tail(a), SubSeq(b, k + 1, Len(b)),
                  0, 0, min_gallop + 1)

\* the galloping loop after gallop_right has found k elements of a
lo_took_a(out, a, b, min_gallop, k) ==
    IF Len(a) - k = 1
    THEN MergeEnd(out \o SubSeq(a, 1, k) \o b \o <<a[Len(a)]>>, min_gallop)
    ELSE IF Len(a) = k THEN MergeEnd(out \o a \o b, min_gallop)
    ELSE IF Len(b) = 1
    THEN MergeEnd(out \o SubSeq(a, 1, k) \o b \o SubSeq(a, k + 1, Len(a)), min_gallop)
    ELSE lo_took_b(out \o SubSeq(a, 1, k) \o <<b[1]>>, SubSeq(a, k + 1, Len(a)), Tail(b),
                   min_gallop, k, gallop_left(a[k + 1], Tail(b), 0))

\* one turn of the galloping loop
lo_gallop(out, a, b, min_gallop) ==
    lo_took_a(out, a, b, min_gallop, gallop_right(b[1], a, 0))

\* one turn of the loop that takes one element at a time until one run has
\* won min_gallop times in a row
lo_straight(out, a, b, acount, bcount, min_gallop) ==
    IF DLt(b[1], a[1])
    THEN (IF Len(b) = 1 THEN MergeEnd(out \o b \o a, min_gallop)
          ELSE IF bcount + 1 >= min_gallop
          THEN Galloping(Append(out, b[1]), a, Tail(b), min_gallop)
          ELSE Straight(Append(out, b[1]), a, Tail(b), 0, bcount + 1, min_gallop))
    ELSE (IF Len(a) = 2 THEN MergeEnd(out \o <<a[1]>> \o b \o <<a[2]>>, min_gallop)
          ELSE IF acount + 1 >= min_gallop
          THEN Galloping(Append(out, a[1]), Tail(a), b, min_gallop)
          ELSE Straight(Append(out, a[1]), Tail(a), b, acount + 1, 0, min_gallop))

lo_turn(m) ==
    IF m.at = "straight"
    THEN lo_straight(m.out, m.a, m.b, m.acount, m.bcount, m.min_gallop)
    ELSE IF m.at = "gallop" THEN lo_gallop(m.out, m.a, m.b, m.min_gallop)
    ELSE m

\* n turns of the two loops, or as many as the merge takes: every turn
\* writes an element, and the turns stop where the merge ends
RECURSIVE lo_turns(_, _)
lo_go_on(m, n) == IF m.at = "end" THEN m ELSE lo_turns(m, n)

lo_turns(m, n) ==
    IF n <= 1 THEN lo_turn(m) ELSE lo_go_on(lo_turns(m, n \div 2), n - n \div 2)

merge_lo(a, b, min_gallop) ==
    IF Len(b) = 1 THEN MergeEnd(b \o a, min_gallop)
    ELSE IF Len(a) = 1 THEN MergeEnd(b \o a, min_gallop)
    ELSE lo_turns(Straight(<<b[1]>>, a, Tail(b), 0, 0, min_gallop), Len(a) + Len(b))

\* merge_hi: out is what has been written at the end, a holds the elements
\* of the first run still in place, b the elements of the second run still
\* in the temporary array.  The label Succeed leaves a, b, out and the label
\* CopyA b[0], a, the rest of b, out

\* the galloping loop after gallop_left has left k elements of b behind it
hi_took_b(out, a, b, min_gallop, acount, k) ==
    IF Len(b) - k = 1 THEN MergeEnd(<<b[1]>> \o a \o Tail(b) \o out, min_gallop)
    ELSE IF Len(b) = k THEN MergeEnd(a \o b \o out, min_gallop)
    ELSE IF Len(a) = 1
    THEN MergeEnd(SubSeq(b, 1, Len(b) - k) \o a \o SubSeq(b, Len(b) - k + 1, Len(b)) \o out,
                  min_gallop)
    ELSE IF acount >= MinGallop \/ k >= MinGallop
    THEN Galloping(<<a[Len(a)]>> \o SubSeq(b, Len(b) - k + 1, Len(b)) \o out, Front(a),
                   SubSeq(b, 1, Len(b) - k), less_gallop(min_gallop))
    ELSE Straight(<<a[Len(a)]>> \o SubSeq(b, Len(b) - k + 1, Len(b)) \o out, Front(a),
                  SubSeq(b, 1, Len(b) - k), 0, 0, min_gallop + 1)

\* the galloping loop after gallop_right has left k elements of a behind it
hi_took_a(out, a, b, min_gallop, k) ==
    IF Len(a) = k THEN MergeEnd(b \o a \o out, min_gallop)
    ELSE IF Len(b) = 2
    THEN MergeEnd(<<b[1]>> \o SubSeq(a, 1, Len(a) - k) \o <<b[2]>>
                  \o SubSeq(a, Len(a) - k + 1, Len(a)) \o out, min_gallop)
    ELSE hi_took_b(<<b[Len(b)]>> \o SubSeq(a, Len(a) - k + 1, Len(a)) \o out,
                   SubSeq(a, 1, Len(a) - k), Front(b), min_gallop, k,
                   Len(b) - 1 - gallop_left(a[Len(a) - k], Front(b), Len(b) - 2))

hi_gallop(out, a, b, min_gallop) ==
    hi_took_a(out, a, b, min_gallop, Len(a) - gallop_right(b[Len(b)], a, Len(a) - 1))

hi_straight(out, a, b, acount, bcount, min_gallop) ==
    IF DLt(b[Len(b)], a[Len(a)])
    THEN (IF Len(a) = 1 THEN MergeEnd(b \o a \o out, min_gallop)
          ELSE IF acount + 1 >= min_gallop
          THEN Galloping(<<a[Len(a)]>> \o out, Front(a), b, min_gallop)
          ELSE Straight(<<a[Len(a)]>> \o out, Front(a), b, acount + 1, 0, min_gallop))
    ELSE (IF Len(b) = 2 THEN MergeEnd(<<b[1]>> \o a \o <<b[2]>> \o out, min_gallop)
          ELSE IF bcount + 1 >= min_gallop
          THEN Galloping(<<b[Len(b)]>> \o out, a, Front(b), min_gallop)
          ELSE Straight(<<b[Len(b)]>> \o out, a, Front(b), 0, bcount + 1, min_gallop))

hi_turn(m) ==
    IF m.at = "straight"
    THEN hi_straight(m.out, m.a, m.b, m.acount, m.bcount, m.min_gallop)
    ELSE IF m.at = "gallop" THEN hi_gallop(m.out, m.a, m.b, m.min_gallop)
    ELSE m

RECURSIVE hi_turns(_, _)
hi_go_on(m, n) == IF m.at = "end" THEN m ELSE hi_turns(m, n)

hi_turns(m, n) ==
    IF n <= 1 THEN hi_turn(m) ELSE hi_go_on(hi_turns(m, n \div 2), n - n \div 2)

merge_hi(a, b, min_gallop) ==
    IF Len(a) = 1 THEN MergeEnd(b \o a, min_gallop)
    ELSE IF Len(b) = 1 THEN MergeEnd(b \o a, min_gallop)
    ELSE hi_turns(Straight(<<a[Len(a)]>>, Front(a), b, 0, 0, min_gallop), Len(a) + Len(b))

\* merge_at with the first k elements of a and the elements of b from nb on
\* already in place
merge_between(a, b, min_gallop, k, nb) ==
    IF nb = 0 THEN MergeEnd(a \o b, min_gallop)
    ELSE IF Len(a) - k <= nb
    THEN merge_lo(SubSeq(a, k + 1, Len(a)), SubSeq(b, 1, nb), min_gallop)
    ELSE merge_hi(SubSeq(a, k + 1, Len(a)), SubSeq(b, 1, nb), min_gallop)

merge_around(a, b, k, nb, m) ==
    IF nb = 0 THEN m
    ELSE MergeEnd(SubSeq(a, 1, k) \o m.list \o SubSeq(b, nb + 1, Len(b)), m.min_gallop)

merge_after(a, b, min_gallop, k, nb) ==
    merge_around(a, b, k, nb, merge_between(a, b, min_gallop, k, nb))

merge_from(a, b, min_gallop, k) ==
    IF k = Len(a) THEN MergeEnd(a \o b, min_gallop)
    ELSE merge_after(a, b, min_gallop, k, gallop_left(a[Len(a)], b, Len(b) - 1))

\* merge_at: the adjacent runs a and b merged
merge_runs(a, b, min_gallop) == merge_from(a, b, min_gallop, gallop_right(b[1], a, 0))

\* a pending run of the merge state: where it starts, counted from 0, its
\* length and its power
run_of(L, run) == SubSeq(L, run.start + 1, run.start + run.len)

\* the stack of pending runs once the runs i and i + 1 are one
collapsed(pending, i) ==
    SubSeq(pending, 1, i - 1)
    \o <<[pending[i] EXCEPT !.len = pending[i].len + pending[i + 1].len]>>
    \o SubSeq(pending, i + 2, Len(pending))

merged_at(ms, i, m) ==
    [list |-> SubSeq(ms.list, 1, ms.pending[i].start) \o m.list
              \o SubSeq(ms.list, ms.pending[i + 1].start + ms.pending[i + 1].len + 1,
                        Len(ms.list)),
     pending |-> collapsed(ms.pending, i),
     min_gallop |-> m.min_gallop]

\* merge_at(ms, i), i counted from 1
merge_at(ms, i) ==
    merged_at(ms, i, merge_runs(run_of(ms.list, ms.pending[i]),
                                run_of(ms.list, ms.pending[i + 1]), ms.min_gallop))

\* powerloop: a and b are twice the midpoints of the two runs
RECURSIVE powerloop(_, _, _, _)
powerloop(a, b, n, count) ==
    IF a >= n THEN powerloop(2 * (a - n), 2 * (b - n), n, count + 1)
    ELSE IF b >= n THEN count + 1
    ELSE powerloop(2 * a, 2 * b, n, count + 1)

\* found_new_run: the runs of a higher power than the new boundary's are
\* merged, and the top run gets the power
RECURSIVE merge_above(_, _)
merge_above(ms, power) ==
    IF Len(ms.pending) > 1 /\ ms.pending[Len(ms.pending) - 1].power > power
    THEN merge_above(merge_at(ms, Len(ms.pending) - 1), power)
    ELSE [ms EXCEPT !.pending[Len(ms.pending)].power = power]

found_new_run(ms, n2) ==
    IF ms.pending = <<>> THEN ms
    ELSE merge_above(ms, powerloop(2 * ms.pending[Len(ms.pending)].start
                                     + ms.pending[Len(ms.pending)].len,
                                   2 * ms.pending[Len(ms.pending)].start
                                     + 2 * ms.pending[Len(ms.pending)].len + n2,
                                   Len(ms.list), 0))

\* the run of n elements that starts at lo pushed on the stack
pushed(ms, lo, n) ==
    [ms EXCEPT !.pending = Append(ms.pending, [start |-> lo, len |-> n, power |-> 0])]

\* the main loop of list.sort from the element lo on
RECURSIVE runs_from(_, _, _)

run_forced(ms, lo, minrun, rest, n, force) ==
    runs_from(pushed(found_new_run([ms EXCEPT !.list = SubSeq(ms.list, 1, lo)
                                                        \o arranged(rest, n, force)
                                                        \o SubSeq(rest, force + 1, Len(rest))],
                                   force),
                     lo, force),
              lo + force, minrun)

run_counted(ms, lo, minrun, rest, n) ==
    run_forced(ms, lo, minrun, rest, n, IF n < minrun THEN Min(minrun, Len(rest)) ELSE n)

next_run(ms, lo, minrun, rest) == run_counted(ms, lo, minrun, rest, count_run(rest))

runs_from(ms, lo, minrun) ==
    IF lo >= Len(ms.list) THEN ms
    ELSE next_run(ms, lo, minrun, SubSeq(ms.list, lo + 1, Len(ms.list)))

\* merge_force_collapse
RECURSIVE merge_force_collapse(_)
merge_force_collapse(ms) ==
    IF Len(ms.pending) <= 1 THEN ms
    ELSE merge_force_collapse(
             merge_at(ms, IF Len(ms.pending) > 2
                             /\ ms.pending[Len(ms.pending) - 2].len
                                  < ms.pending[Len(ms.pending)].len
                          THEN Len(ms.pending) - 2
                          ELSE Len(ms.pending) - 1))

\* list.sort
list_sort(L) ==
    merge_force_collapse(
        runs_from([list |-> L, pending |-> <<>>, min_gallop |-> MinGallop], 0,
                  merge_compute_minrun(Len(L), 0))).list

\* sorted(L) of a list of floats.  With a nan, for which every comparison
\* is false, the result depends on the order of L
sorted(L) == IF Len(L) < 2 THEN L ELSE list_sort(L)

\* the keys of set(scores) in the order of the list: the first of equal ones
RECURSIVE distinct(_)
distinct(scores) ==
    IF scores = <<>> THEN <<>>
    ELSE IF \E i \in 1..(Len(scores) - 1) : DEq(scores[i], scores[Len(scores)])
         THEN distinct(Front(scores))
         ELSE Append(distinct(Front(scores)), scores[Len(scores)])

\* sorted(set(scores)).  Floats without a nan are totally ordered, and
\* sorting gives the one ascending list of the keys whatever order the set
\* is iterated in; with a nan the result follows the order of the set
sorted_set(scores) ==
    IF \E i \in 1..Len(scores) : IsNaN(scores[i])
    THEN {sorted(o) : o \in set_orders(scores)}
    ELSE {sorted(distinct(scores))}

----------------------------------------------------------------------------
(* TableSegmenter: merging the fragments *)

\* merged_data.extend(data) over all fragments, in fragment order
RECURSIVE merged_data(_)
merged_data(all_tables) ==
    IF all_tables = <<>> THEN <<>>
    ELSE all_tables[1].data \o merged_data(Tail(all_tables))

\* if page not in source_pages: source_pages.append(page)
RECURSIVE source_pages(_)
source_pages(all_tables) ==
    IF all_tables = <<>> THEN <<>>
    ELSE LET n == Len(all_tables)
             before == source_pages(SubSeq(all_tables, 1, n - 1))
         IN IF all_tables[n].page \in Range(before) THEN before
            ELSE Append(before, all_tables[n].page)

\* TableSchema(headers=header, column_count=len(header), has_header=True,
\*             header_row_indices=[0])
TableSchema(header) ==
    [headers |-> header, column_count |-> Len(header), has_header |-> TRUE,
     header_row_indices |-> <<0>>]

\* ExtractedTable(...); fields not passed keep their default None
ExtractedTable(data, schema, pages, strat, title, domain) ==
    [data |-> data, schema |-> schema, source_pages |-> pages,
     table_type |-> "logical", segmentation_strategy |-> strat,
     section_title |-> title, score_domain |-> domain]

ScoreDomain(name, lo, hi) == [name |-> name, min_score |-> lo, max_score |-> hi]

----------------------------------------------------------------------------
(* TableSegmenter._detect_score_domains *)

\* lines 295-296: scores.append(score_num) unless it is None
scored(score_num) == IF score_num.some THEN <<score_num.val>> ELSE <<>>

\* lines 292-296 for the rows of one fragment
RECURSIVE row_scores(_)
row_scores(rows) ==
    IF rows = <<>> THEN <<>>
    ELSE (IF rows[1] = <<>> THEN <<>>
          ELSE scored(Segmenter_extract_number(rows[1][1])))
         \o row_scores(Tail(rows))

\* the scores list: column 0 of the rows after the first of EACH fragment
RECURSIVE collect_scores(_)
collect_scores(all_tables) ==
    IF all_tables = <<>> THEN <<>>
    ELSE row_scores(IF all_tables[1].data = <<>> THEN <<>> ELSE Tail(all_tables[1].data))
         \o collect_scores(Tail(all_tables))

\* the loop "split at gaps > 5" from index i on, current_min being the start
\* of the open run: the pairs (current_min, last score) of the domains
RECURSIVE split_domains(_, _, _)
split_domains(scores, i, current_min) ==
    IF i > Len(scores)
    THEN << <<current_min, scores[Len(scores)]>> >>
    ELSE IF DLt(FromInt(GapThreshold), DSub(scores[i], scores[i - 1]))
         THEN << <<current_min, scores[i - 1]>> >>
              \o split_domains(scores, i + 1, scores[i])
         ELSE split_domains(scores, i + 1, current_min)

\* int(x): ValueError for a nan, OverflowError for an infinity
int_error(x) ==
    IF IsNaN(x) THEN "ValueError" ELSE IF x.kind = "inf" THEN "OverflowError" ELSE "none"

\* the first exception of int() over the pairs, each pair's minimum first
RECURSIVE first_error(_)
first_error(pairs) ==
    IF pairs = <<>> THEN "none"
    ELSE IF int_error(pairs[1][1]) # "none" THEN int_error(pairs[1][1])
    ELSE IF int_error(pairs[1][2]) # "none" THEN int_error(pairs[1][2])
    ELSE first_error(Tail(pairs))

\* ScoreDomain(name=f"Score Range {a}-{b}", min_score=int(a), max_score=int(b)),
\* the name kept as its parts
named_domains(pairs) ==
    [k \in 1..Len(pairs) |->
        ScoreDomain(<<"Score Range", pairs[k][1], pairs[k][2]>>,
                    int(pairs[k][1]), int(pairs[k][2]))]

\* the domains of the sorted scores, or the exception
domains_of(pairs) ==
    IF first_error(pairs) # "none"
    THEN [error |-> first_error(pairs), domains |-> <<>>]
    ELSE [error |-> "none", domains |-> named_domains(pairs)]

\* lines 304-329 on the sorted scores
split_sorted(scores) == domains_of(split_domains(scores, 2, scores[1]))

\* lines 298-329: one outcome for each result of sorted(set(scores))
detected_from(scores) ==
    IF scores = <<>>
    THEN {[error |-> "none", domains |-> <<>>]}
    ELSE {split_sorted(o) : o \in sorted_set(scores)}

\* every outcome of _detect_score_domains
detect_score_domains(all_tables) == detected_from(collect_scores(all_tables))

----------------------------------------------------------------------------
(* TableSegmenter.segment_by_score_domain *)

\* in_domain with the lower bound exclusive
in_domain_exclusive(row, domain) ==
    /\ row # <<>>
    /\ LET score_num == Segmenter_extract_number(row[1])
       IN /\ score_num.some
          /\ DLt(FromInt(domain.min_score), score_num.val)
          /\ DLe(score_num.val, FromInt(domain.max_score))

\* the test of line 157 for one row and one domain
in_domain(row, domain) ==
    /\ row # <<>>
    /\ LET score_num == Segmenter_extract_number(row[1])
       IN /\ score_num.some
          /\ DLe(FromInt(domain.min_score), score_num.val)
          /\ DLe(score_num.val, FromInt(domain.max_score))

domain_rows(data_rows, domain) ==
    SelectSeq(data_rows, LAMBDA row : in_domain(row, domain))

\* the rows after the first of EACH fragment, as _detect_score_domains reads them
RECURSIVE rows_after_each_first(_)
rows_after_each_first(all_tables) ==
    IF all_tables = <<>> THEN <<>>
    ELSE (IF all_tables[1].data = <<>> THEN <<>> ELSE Tail(all_tables[1].data))
         \o rows_after_each_first(Tail(all_tables))

\* lines 118-120: the domains supplied, or every outcome of their detection
domains_used(all_tables, score_domains) ==
    IF score_domains = None \/ score_domains.val = <<>>
    THEN detect_score_domains(all_tables)
    ELSE {[error |-> "none", domains |-> score_domains.val]}

\* lines 160-180: the table of a domain with rows, nothing for one without
domain_table(header, rows, pages, domain) ==
    IF rows = <<>> THEN <<>>
    ELSE <<ExtractedTable(<<header>> \o rows, TableSchema(header), pages,
                          Some("score_domain"), None, Some(domain))>>

\* lines 147-180: one table for each domain with rows, in the order of doms
RECURSIVE domain_tables(_, _, _, _)
domain_tables(header, data_rows, pages, doms) ==
    IF doms = <<>> THEN <<>>
    ELSE domain_table(header, domain_rows(data_rows, doms[1]), pages, doms[1])
         \o domain_tables(header, data_rows, pages, Tail(doms))

\* segment_by_score_domain taking every fragment's first row for a header
segment_by_score_domain_per_page(all_tables, score_domains) ==
    {IF d.error # "none" THEN Raised(d.error)
     ELSE IF merged_data(all_tables) = <<>> THEN Returned(<<>>)
     ELSE Returned(domain_tables(merged_data(all_tables)[1],
                                 rows_after_each_first(all_tables),
                                 source_pages(all_tables), d.domains)) :
        d \in domains_used(all_tables, score_domains)}

\* segment_by_score_domain returning one table without rows for an input
\* without rows
segment_by_score_domain_empty_table(all_tables, score_domains) ==
    {IF d.error # "none" THEN Raised(d.error)
     ELSE IF merged_data(all_tables) = <<>>
     THEN Returned(<<ExtractedTable(<<>>, TableSchema(<<>>), source_pages(all_tables),
                                    Some("score_domain"), None, None)>>)
     ELSE Returned(domain_tables(merged_data(all_tables)[1],
                                 Tail(merged_data(all_tables)),
                                 source_pages(all_tables), d.domains)) :
        d \in domains_used(all_tables, score_domains)}

\* every outcome of the call: the tables returned, or the exception raised
segment_by_score_domain(all_tables, score_domains) ==
    {IF d.error # "none" THEN Raised(d.error)
     ELSE IF merged_data(all_tables) = <<>> THEN Returned(<<>>)
     ELSE Returned(domain_tables(merged_data(all_tables)[1],
                                 Tail(merged_data(all_tables)),
                                 source_pages(all_tables), d.domains)) :
        d \in domains_used(all_tables, score_domains)}

----------------------------------------------------------------------------
(* TableSegmenter._detect_header_pattern *)

\* tuple(cell.strip().upper() for cell in row)
row_tuple(row) == [i \in 1..Len(row) |-> upper(strip(row[i]))]

\* row and all(cell.strip() for cell in row)
could_be_header(row) == row # <<>> /\ \A i \in 1..Len(row) : strip(row[i]) # <<>>

\* header_counts after the rows m[1..n]: the dict as the sequence of its
\* [key, count] items in insertion order
RECURSIVE header_counts(_, _)
header_counts(m, n) ==
    IF n = 0 THEN <<>>
    ELSE LET before == header_counts(m, n - 1)
         IN IF ~could_be_header(m[n]) THEN before
            ELSE LET key == row_tuple(m[n])
                 IN IF \E i \in 1..Len(before) : before[i].key = key
                    THEN [i \in 1..Len(before) |->
                            IF before[i].key = key
                            THEN [key |-> key, count |-> before[i].count + 1]
                            ELSE before[i]]
                    ELSE Append(before, [key |-> key, count |-> 1])

\* detect_header_pattern taking a row seen once for a repeated header
detect_header_pattern_once(all_tables) ==
    LET m == merged_data(all_tables)
        counts == header_counts(m, Len(m))
    IN IF counts = <<>> THEN None ELSE Some(counts[1].key)

\* _detect_header_pattern over a mapping iterated in hash order: which
\* repeated pattern comes first depends on the hash seed of the process
detect_header_pattern_hash_order(all_tables) ==
    LET m == merged_data(all_tables)
        counts == header_counts(m, Len(m))
        twice == {i \in 1..Len(counts) : counts[i].count >= 2}
    IN IF twice = {} THEN None
       ELSE IF process.hash_seed = 0
       THEN Some(counts[CHOOSE i \in twice : \A j \in twice : i <= j].key)
       ELSE Some(counts[CHOOSE i \in twice : \A j \in twice : i >= j].key)

\* the first item, in insertion order, with count >= 2
detect_header_pattern(all_tables) ==
    LET m == merged_data(all_tables)
        counts == header_counts(m, Len(m))
        twice == {i \in 1..Len(counts) : counts[i].count >= 2}
    IN IF twice = {} THEN None
       ELSE Some(counts[CHOOSE i \in twice : \A j \in twice : i <= j].key)

\* TableSegmenter._is_header_row
is_header_row(row, header_pattern) ==
    /\ row # <<>>
    /\ Len(row) = Len(header_pattern)
    /\ row_tuple(row) = header_pattern

\* TableSegmenter._is_section_title
is_section_title(row) ==
    /\ Len(row) >= 2
    /\ strip(row[1]) # <<>>
    /\ \A i \in 2..Len(row) : strip(row[i]) = <<>>

\* TableSegmenter._create_table_from_section (called with a non-empty section)
create_table_from_section(header, section_data, pages, section_title) ==
    ExtractedTable(<<header>> \o section_data, TableSchema(header), pages,
                   Some("header_repetition"), section_title, None)

\* TableSegmenter._create_single_logical_table
create_single_logical_table(data, pages) ==
    IF data = <<>> THEN <<>>
    ELSE <<ExtractedTable(data, TableSchema(data[1]), pages, None, None, None)>>

----------------------------------------------------------------------------
(* TableSegmenter.segment_by_header_repetition *)

\* the locals of the walk before its first row
walk_start ==
    [segmented_tables |-> <<>>, current_section |-> <<>>,
     current_header |-> None, section_title |-> None]

\* walk_step appending a section-title row to the section as well
walk_step_title_kept(w, row, header_pattern, pages) ==
    IF row = <<>> THEN w
    ELSE IF is_header_row(row, header_pattern)
    THEN [segmented_tables |->
              IF w.current_section # <<>> /\ w.current_header.some
              THEN Append(w.segmented_tables,
                          create_table_from_section(w.current_header.val,
                              w.current_section, pages, w.section_title))
              ELSE w.segmented_tables,
          current_header |-> Some(row),
          current_section |-> <<>>,
          section_title |-> None]
    ELSE IF w.current_header.some
    THEN [w EXCEPT !.current_section = Append(w.current_section, row),
                   !.section_title = IF is_section_title(row) THEN Some(row[1]) ELSE @]
    ELSE w

\* one iteration of "for row in merged_data" (lines 233-259)
walk_step(w, row, header_pattern, pages) ==
    IF row = <<>> THEN w
    ELSE IF is_header_row(row, header_pattern)
    THEN [segmented_tables |->
              IF w.current_section # <<>> /\ w.current_header.some
              THEN Append(w.segmented_tables,
                          create_table_from_section(w.current_header.val,
                              w.current_section, pages, w.section_title))
              ELSE w.segmented_tables,
          current_header |-> Some(row),
          current_section |-> <<>>,
          section_title |-> None]
    ELSE IF is_section_title(row)
    THEN [w EXCEPT !.section_title = Some(row[1])]
    ELSE IF w.current_header.some
    THEN [w EXCEPT !.current_section = Append(w.current_section, row)]
    ELSE w

\* the locals after the rows m[1..n]
RECURSIVE walk(_, _, _, _)
walk(m, n, header_pattern, pages) ==
    IF n = 0 THEN walk_start
    ELSE walk_step(walk(m, n - 1, header_pattern, pages), m[n], header_pattern, pages)

\* lines 261-267: the last section saved
last_saved(w, pages) ==
    IF w.current_section # <<>> /\ w.current_header.some
    THEN Append(w.segmented_tables,
                create_table_from_section(w.current_header.val, w.current_section,
                                          pages, w.section_title))
    ELSE w.segmented_tables

\* lines 269-273: if no segmentation occurred, the single table
or_single_table(segmented_tables, merged, pages) ==
    IF segmented_tables = <<>> THEN create_single_logical_table(merged, pages)
    ELSE segmented_tables

\* lines 217-273, with the merged rows, the pages and the header pattern
segmented_by(merged, pages, header_pattern) ==
    IF merged = <<>> THEN <<>>
    ELSE IF ~header_pattern.some THEN create_single_logical_table(merged, pages)
    ELSE or_single_table(
             last_saved(walk(merged, Len(merged), header_pattern.val, pages), pages),
             merged, pages)

segment_by_header_repetition(all_tables) ==
    IF all_tables = <<>> THEN <<>>
    ELSE segmented_by(merged_data(all_tables), source_pages(all_tables),
                      detect_header_pattern(all_tables))

----------------------------------------------------------------------------
(* TableSegmenter._detect_strategy and TableSegmenter.segment_tables *)

\* [row[0] for row in data[1:] if row]
first_col_values(data) ==
    LET rows == SelectSeq(Tail(data), LAMBDA row : row # <<>>)
    IN [i \in 1..Len(rows) |-> rows[i][1]]

\* numeric_count > len(first_col_values) * 0.7: the product is a float
mostly_numeric(data) ==
    LET vals == first_col_values(data)
        numeric_count == Cardinality({i \in 1..Len(vals) : is_numeric(vals[i])})
    IN DLt(DMul(FromInt(Len(vals)), binary([num |-> NumericTenths, den |-> 10])),
           FromInt(numeric_count))

detect_strategy(all_tables) ==
    LET has_score_column ==
            \E i \in 1..Len(all_tables) :
                Len(all_tables[i].data) > 1 /\ mostly_numeric(all_tables[i].data)
        nonempty == SelectSeq(all_tables, LAMBDA t : t.data # <<>>)
        repeated_first_row ==
            \E i, j \in 1..Len(nonempty) : i < j /\ nonempty[i].data[1] = nonempty[j].data[1]
    IN IF has_score_column THEN "score_domain"
       ELSE IF repeated_first_row THEN "header_repetition"
       ELSE "header_repetition"

\* segment_tables falling back to header repetition for a tag it does not know
segment_tables_with_default(all_tables, strategy_tag, score_domains) ==
    LET chosen == IF strategy_tag = "auto" THEN detect_strategy(all_tables)
                  ELSE strategy_tag
    IN IF chosen = "score_domain"
       THEN segment_by_score_domain(all_tables, score_domains)
       ELSE {Returned(segment_by_header_repetition(all_tables))}

\* every outcome of the call
segment_tables(all_tables, strategy_tag, score_domains) ==
    LET chosen == IF strategy_tag = "auto" THEN detect_strategy(all_tables)
                  ELSE strategy_tag
    IN IF chosen = "score_domain"
       THEN segment_by_score_domain(all_tables, score_domains)
       ELSE IF chosen = "header_repetition"
       THEN {Returned(segment_by_header_repetition(all_tables))}
       ELSE {Raised("ValueError")}

----------------------------------------------------------------------------
(* ValidationIssue and ValidationReport (models.py) *)

ValidationIssue(severity, message, table_name, row_index, column_name) ==
    [severity |-> severity, message |-> message, table_name |-> table_name,
     row_index |-> row_index, column_name |-> column_name]

ValidationReport(overall_status, issues, validated, passed, warnings, failed) ==
    [overall_status |-> overall_status, issues |-> issues,
     tables_validated |-> validated, tables_passed |-> passed,
     tables_with_warnings |-> warnings, tables_failed |-> failed]

\* add_issue without the test that the report has not failed yet
add_issue_last_wins(r, issue) ==
    LET appended == [r EXCEPT !.issues = Append(r.issues, issue)]
    IN IF issue.severity = "failed"
       THEN [appended EXCEPT !.overall_status = "failed"]
       ELSE IF issue.severity = "warning"
       THEN [appended EXCEPT !.overall_status = "warning"]
       ELSE appended

\* ValidationReport.add_issue
add_issue(r, issue) ==
    LET appended == [r EXCEPT !.issues = Append(r.issues, issue)]
    IN IF issue.severity = "failed"
       THEN [appended EXCEPT !.overall_status = "failed"]
       ELSE IF issue.severity = "warning" /\ r.overall_status # "failed"
       THEN [appended EXCEPT !.overall_status = "warning"]
       ELSE appended

\* add_issue for each issue of a sequence, in order
RECURSIVE add_issues(_, _)
add_issues(r, issues) ==
    IF issues = <<>> THEN r
    ELSE add_issues(add_issue(r, issues[1]), Tail(issues))

----------------------------------------------------------------------------
(* TableValidator: helpers *)

\* TableValidator._update_worst_status
priority(status) ==
    CASE status = "passed" -> 0 [] status = "warning" -> 1 [] status = "failed" -> 2

update_worst_status(current, new) ==
    IF priority(new) > priority(current) THEN new ELSE current

\* _extract_number giving 0.0 for a cell that float() rejects
Validator_extract_number_zero(value) ==
    IF float(strip(remove(remove(value, ","), "%"))).some
    THEN float(strip(remove(remove(value, ","), "%")))
    ELSE Some(Zero(1))

\* TableValidator._extract_number
Validator_extract_number(value) == float(strip(remove(remove(value, ","), "%")))

\* the cells of column col_idx (0-based) in the rows after the first, with
\* their index in table.data; rows too short for the column are left out
column_cells(table, col_idx) ==
    LET idxs == {i \in 2..Len(table.data) : Len(table.data[i]) > col_idx}
    IN [i \in idxs |-> table.data[i][col_idx + 1]]

\* the indices, ascending, of a set of row indices
RECURSIVE Ascending(_)
Ascending(S) ==
    IF S = {} THEN <<>>
    ELSE LET m == CHOOSE x \in S : \A y \in S : x <= y
         IN <<m>> \o Ascending(S \ {m})

\* _find_column_index returning the last header that matches
find_column_index_last(headers, keywords) ==
    LET hits == {i \in 1..Len(headers) :
                   \E k \in 1..Len(keywords) : contains(lower(headers[i]), keywords[k])}
    IN IF hits = {} THEN None
       ELSE Some((CHOOSE i \in hits : \A j \in hits : i >= j) - 1)

\* TableValidator._find_column_index: 0-based index, or None
find_column_index(headers, keywords) ==
    LET hits == {i \in 1..Len(headers) :
                   \E k \in 1..Len(keywords) : contains(lower(headers[i]), keywords[k])}
    IN IF hits = {} THEN None
       ELSE Some((CHOOSE i \in hits : \A j \in hits : i <= j) - 1)

\* " ".join(cells)
RECURSIVE join(_)
join(cells) ==
    IF cells = <<>> THEN <<>>
    ELSE IF Len(cells) = 1 THEN cells[1]
    ELSE cells[1] \o <<" ">> \o join(Tail(cells))


\* _is_distribution_table content with a single keyword
is_distribution_table_one_keyword(table) ==
    /\ table.data # <<>>
    /\ LET headers_lower == [i \in 1..Len(table.schema.headers) |->
                               lower(table.schema.headers[i])]
           indicators == <<<<"f", "r", "e", "q", "u", "e", "n", "c", "y">>, <<"p", "e", "r", "c", "e", "n", "t">>, <<"c", "u", "m", "u", "l", "a", "t", "i", "v", "e">>, <<"s", "c", "o", "r", "e">>, <<"m", "a", "r", "k">>>>
           matches == Cardinality({k \in 1..Len(indicators) :
                          \E i \in 1..Len(headers_lower) :
                              contains(headers_lower[i], indicators[k])})
       IN matches >= 1

\* TableValidator._is_distribution_table
is_distribution_table(table) ==
    /\ table.data # <<>>
    /\ LET headers_lower == [i \in 1..Len(table.schema.headers) |->
                               lower(table.schema.headers[i])]
           indicators == <<<<"f", "r", "e", "q", "u", "e", "n", "c", "y">>, <<"p", "e", "r", "c", "e", "n", "t">>, <<"c", "u", "m", "u", "l", "a", "t", "i", "v", "e">>, <<"s", "c", "o", "r", "e">>, <<"m", "a", "r", "k">>>>
           matches == Cardinality({k \in 1..Len(indicators) :
                          \E i \in 1..Len(headers_lower) :
                              contains(headers_lower[i], indicators[k])})
       IN matches >= DistributionMatches

\* TableValidator._is_roster_table
is_roster_table(table) ==
    /\ table.data # <<>>
    /\ LET headers_lower == [i \in 1..Len(table.schema.headers) |->
                               lower(table.schema.headers[i])]
           indicators == <<<<"n", "a", "m", "e">>, <<"p", "o", "s", "i", "t", "i", "o", "n">>, <<"d", "e", "p", "a", "r", "t", "m", "e", "n", "t">>, <<"s", "t", "a", "f", "f">>,
                           <<"s", "t", "u", "d", "e", "n", "t">>, <<"e", "m", "p", "l", "o", "y", "e", "e">>>>
       IN \E k \in 1..Len(indicators) : contains(join(headers_lower), indicators[k])

----------------------------------------------------------------------------
(* TableValidator: the rules.  Each gives the issues it adds to the report, *)
(* in order, and the status it returns.                                     *)

Outcome(issues, status) == [issues |-> issues, status |-> status]

\* tuple(str(cell).strip() for cell in row)
stripped_tuple(row) == [i \in 1..Len(row) |-> strip(row[i])]

\* _validate_no_duplicate_rows without the any(row_tuple) test
validate_no_duplicate_rows_blank_counted(table, table_name) ==
    IF Len(table.data) <= 1 THEN Outcome(<<>>, "passed")
    ELSE LET offset == IF table.schema.has_header THEN 1 ELSE 0
             data_rows == IF table.schema.has_header THEN Tail(table.data) ELSE table.data
             repeats == {i \in 1..Len(data_rows) :
                           \E j \in 1..(i - 1) :
                               stripped_tuple(data_rows[j]) = stripped_tuple(data_rows[i])}
         IN IF repeats = {} THEN Outcome(<<>>, "passed")
            ELSE LET first == CHOOSE i \in repeats : \A j \in repeats : i <= j
                 IN Outcome(<<ValidationIssue("failed", "Duplicate row found", table_name,
                                              Some(first - 1 + offset), None)>>,
                            "failed")

\* TableValidator._validate_no_duplicate_rows
validate_no_duplicate_rows(table, table_name) ==
    IF Len(table.data) <= 1 THEN Outcome(<<>>, "passed")
    ELSE LET offset == IF table.schema.has_header THEN 1 ELSE 0
             data_rows == IF table.schema.has_header THEN Tail(table.data) ELSE table.data
             \* row_tuple in seen_rows and any(row_tuple)
             repeats == {i \in 1..Len(data_rows) :
                           /\ \E j \in 1..(i - 1) :
                                  stripped_tuple(data_rows[j]) = stripped_tuple(data_rows[i])
                           /\ \E c \in 1..Len(data_rows[i]) : strip(data_rows[i][c]) # <<>>}
         IN IF repeats = {} THEN Outcome(<<>>, "passed")
            ELSE LET first == CHOOSE i \in repeats : \A j \in repeats : i <= j
                 IN Outcome(<<ValidationIssue("failed", "Duplicate row found", table_name,
                                              Some(first - 1 + offset), None)>>,
                            "failed")

\* _validate_column_consistency returning at the first mismatch
validate_column_consistency_first_only(table, table_name) ==
    LET bad == Ascending({i \in 1..Len(table.data) :
                            Len(table.data[i]) # table.schema.column_count})
    IN Outcome([k \in 1..Min(1, Len(bad)) |->
                   ValidationIssue("warning", "Inconsistent column count", table_name,
                                   Some(bad[k] - 1), None)],
               IF bad = <<>> THEN "passed" ELSE "warning")

\* TableValidator._validate_column_consistency
validate_column_consistency(table, table_name) ==
    LET bad == Ascending({i \in 1..Len(table.data) :
                            Len(table.data[i]) # table.schema.column_count})
    IN Outcome([k \in 1..Len(bad) |->
                   ValidationIssue("warning", "Inconsistent column count", table_name,
                                   Some(bad[k] - 1), None)],
               IF bad = <<>> THEN "passed" ELSE "warning")

\* TableValidator._validate_header_before_data
validate_header_before_data(table, table_name) ==
    IF ~table.schema.has_header /\ Len(table.data) > 0
    THEN Outcome(<<ValidationIssue("warning", "Table has no detected header",
                                   table_name, None, None)>>, "warning")
    ELSE Outcome(<<>>, "passed")

\* total += val, when the cell holds a number
add_value(total, val) == IF val.some THEN DAdd(total, val.val) ELSE total

\* _extract_number of each cell of a column
column_numbers(cells) == [i \in DOMAIN cells |-> Validator_extract_number(cells[i])]

\* the total of the numbers vals of the rows idxs, added in row order
RECURSIVE sum_cells(_, _)
sum_cells(vals, idxs) ==
    IF idxs = <<>> THEN Zero(1)
    ELSE add_value(sum_cells(vals, SubSeq(idxs, 1, Len(idxs) - 1)), vals[idxs[Len(idxs)]])

\* total if count > 0 else None
counted_total(vals) ==
    IF \E i \in DOMAIN vals : vals[i].some
    THEN Some(sum_cells(vals, Ascending(DOMAIN vals))) ELSE None

\* TableValidator._sum_column: None when the column holds no number
sum_column(table, col_idx) == counted_total(column_numbers(column_cells(table, col_idx)))

\* one issue for each of the rows bad, indices in table.data in ascending order
row_issues(severity, message, table_name, bad, column_name) ==
    [k \in 1..Len(bad) |->
        ValidationIssue(severity, message, table_name, Some(bad[k] - 1), column_name)]

\* abs(percent_total - 100.0) > self.tolerance * 100
outside_tolerance(percent_total, tol) ==
    /\ percent_total.some
    /\ DLt(DMul(binary(tol), FromInt(100)),
           DAbs(DSub(percent_total.val, FromInt(100))))

\* lines 202-221: the percent total
percent_issues(table, table_name, tol) ==
    LET percent_col_idx == find_column_index(table.schema.headers,
                               <<<<"p", "e", "r", "c", "e", "n", "t">>,
                                 <<"p", "e", "r", "c", "e", "n", "t", "a", "g", "e">>,
                                 <<"%">>>>)
    IN IF ~percent_col_idx.some THEN <<>>
       ELSE IF outside_tolerance(sum_column(table, percent_col_idx.val), tol)
       THEN <<ValidationIssue("failed", "Percent column does not sum to 100.00",
                  table_name, None,
                  Some(table.schema.headers[percent_col_idx.val + 1]))>>
       ELSE <<>>

\* freq_val is not None and freq_val < 0
negative_rows(vals) ==
    Ascending({i \in DOMAIN vals : vals[i].some /\ DLt(vals[i].val, FromInt(0))})

\* lines 223-238: non-negative frequencies
frequency_issues(table, table_name) ==
    LET frequency_col_idx == find_column_index(table.schema.headers,
                                               <<<<"f", "r", "e", "q", "u", "e", "n", "c", "y">>, <<"f", "r", "e", "q">>, <<"f">>>>)
    IN IF ~frequency_col_idx.some THEN <<>>
       ELSE row_issues("failed", "Negative frequency found", table_name,
                negative_rows(column_numbers(column_cells(table, frequency_col_idx.val))),
                Some(table.schema.headers[frequency_col_idx.val + 1]))

\* the rows whose number is below the number of the row just before
falling_rows_reset(vals) ==
    Ascending({i \in DOMAIN vals :
                 /\ vals[i].some
                 /\ i - 1 \in DOMAIN vals
                 /\ vals[i - 1].some
                 /\ DLt(vals[i].val, vals[i - 1].val)})

\* the last row before row i that holds a number
prev_number(vals, i) ==
    CHOOSE j \in DOMAIN vals :
        /\ j < i /\ vals[j].some
        /\ \A k \in DOMAIN vals : k < i /\ vals[k].some => k <= j

\* cum_val < prev_cumulative: the rows whose number is below the last number
\* met in an earlier row
falling_rows(vals) ==
    Ascending({i \in DOMAIN vals :
                 /\ vals[i].some
                 /\ \E j \in DOMAIN vals : j < i /\ vals[j].some
                 /\ DLt(vals[i].val, vals[prev_number(vals, i)].val)})

\* the cumulative rule with prev_cumulative forgotten at a row without a number
cumulative_issues_reset(table, table_name) ==
    LET cumulative_col_idx == find_column_index(table.schema.headers,
                                                <<<<"c", "u", "m", "u", "l", "a", "t", "i", "v", "e">>, <<"c", "u", "m">>, <<"c", "u", "m", ".">>>>)
    IN IF ~cumulative_col_idx.some THEN <<>>
       ELSE row_issues("failed", "Cumulative frequency not monotonic", table_name,
                falling_rows_reset(column_numbers(column_cells(table,
                                                      cumulative_col_idx.val))),
                Some(table.schema.headers[cumulative_col_idx.val + 1]))

\* lines 240-261: monotonic cumulative frequency; prev_cumulative is the
\* last number met in an earlier row
cumulative_issues(table, table_name) ==
    LET cumulative_col_idx == find_column_index(table.schema.headers,
                                                <<<<"c", "u", "m", "u", "l", "a", "t", "i", "v", "e">>, <<"c", "u", "m">>, <<"c", "u", "m", ".">>>>)
    IN IF ~cumulative_col_idx.some THEN <<>>
       ELSE row_issues("failed", "Cumulative frequency not monotonic", table_name,
                falling_rows(column_numbers(column_cells(table, cumulative_col_idx.val))),
                Some(table.schema.headers[cumulative_col_idx.val + 1]))

\* not (min_score <= score_val <= max_score)
outside_rows(vals, d) ==
    Ascending({i \in DOMAIN vals :
                 /\ vals[i].some
                 /\ ~(/\ DLe(FromInt(d.min_score), vals[i].val)
                      /\ DLe(vals[i].val, FromInt(d.max_score)))})

\* lines 263-286: scores inside the table's score domain
score_domain_issues(table, table_name) ==
    LET score_col_idx == find_column_index(table.schema.headers,
                                           <<<<"s", "c", "o", "r", "e">>, <<"m", "a", "r", "k">>, <<"g", "r", "a", "d", "e">>>>)
    IN IF ~(table.score_domain.some /\ score_col_idx.some) THEN <<>>
       ELSE row_issues("warning", "Score outside domain range", table_name,
                outside_rows(column_numbers(column_cells(table, score_col_idx.val)),
                             table.score_domain.val),
                Some(table.schema.headers[score_col_idx.val + 1]))

\* the worst severity of a sequence of issues
RECURSIVE worst_of(_)
worst_of(issues) ==
    IF issues = <<>> THEN "passed"
    ELSE update_worst_status(worst_of(Tail(issues)), issues[1].severity)

\* the issues of a rule with the worst of their severities for its status
worst_outcome(issues) == Outcome(issues, worst_of(issues))

\* TableValidator._validate_distribution_table
validate_distribution_table(table, table_name, tol) ==
    worst_outcome(percent_issues(table, table_name, tol)
                  \o frequency_issues(table, table_name)
                  \o cumulative_issues(table, table_name)
                  \o score_domain_issues(table, table_name))

\* [cell for cell in row if str(cell).strip()]
non_empty_cells(row) == SelectSeq(row, LAMBDA cell : strip(cell) # <<>>)

\* _validate_roster_table without the test idx > 0
validate_roster_table_from_header(table, table_name) ==
    LET orphans == Ascending({i \in 1..(Len(table.data) - 1) :
                      /\ Len(non_empty_cells(table.data[i])) = 1
                      /\ Len(non_empty_cells(table.data[i + 1])) = 1})
    IN Outcome([k \in 1..Len(orphans) |->
                   ValidationIssue("warning", "Possible orphan row detected", table_name,
                                   Some(orphans[k] - 1), None)],
               IF orphans = <<>> THEN "passed" ELSE "warning")

\* TableValidator._validate_roster_table
validate_roster_table(table, table_name) ==
    LET orphans == Ascending({i \in 2..(Len(table.data) - 1) :
                      /\ Len(non_empty_cells(table.data[i])) = 1
                      /\ Len(non_empty_cells(table.data[i + 1])) = 1})
    IN Outcome([k \in 1..Len(orphans) |->
                   ValidationIssue("warning", "Possible orphan row detected", table_name,
                                   Some(orphans[k] - 1), None)],
               IF orphans = <<>> THEN "passed" ELSE "warning")

----------------------------------------------------------------------------
(* TableValidator._validate_single_table and TableValidator.validate_tables *)

\* the rules with the roster rules run before the distribution rules
rule_outcomes_roster_first(table, table_name, tol) ==
    <<validate_no_duplicate_rows(table, table_name),
      validate_column_consistency(table, table_name),
      validate_header_before_data(table, table_name)>>
    \o (IF is_roster_table(table)
        THEN <<validate_roster_table(table, table_name)>> ELSE <<>>)
    \o (IF is_distribution_table(table)
        THEN <<validate_distribution_table(table, table_name, tol)>> ELSE <<>>)

\* the outcomes of the rules run on one table, in the order they run
rule_outcomes(table, table_name, tol) ==
    <<validate_no_duplicate_rows(table, table_name),
      validate_column_consistency(table, table_name),
      validate_header_before_data(table, table_name)>>
    \o (IF is_distribution_table(table)
        THEN <<validate_distribution_table(table, table_name, tol)>> ELSE <<>>)
    \o (IF is_roster_table(table)
        THEN <<validate_roster_table(table, table_name)>> ELSE <<>>)

\* the report after the rules' issues, and worst_status over their statuses:
\* st.outcomes are the outcomes of the rules still to be taken into account
RECURSIVE run_rules(_)
run_rules(st) ==
    IF st.outcomes = <<>> THEN [report |-> st.report, status |-> st.status]
    ELSE run_rules([outcomes |-> Tail(st.outcomes),
                    report |-> add_issues(st.report, st.outcomes[1].issues),
                    status |-> update_worst_status(st.status, st.outcomes[1].status)])

validate_single_table(table, table_name, r, tol) ==
    run_rules([outcomes |-> rule_outcomes(table, table_name, tol), report |-> r,
               status |-> "passed"])

\* [f"Table_{i+1}" for i in range(len(tables))]
default_names(ts) == [i \in 1..Len(ts) |-> <<"Table_", i>>]

\* the counters with a table that has only warnings counted as passed
count_status_warning_as_passed(one) ==
    CASE one.status \in {"passed", "warning"} ->
           [one.report EXCEPT !.tables_passed = @ + 1]
      [] one.status = "failed" ->
           [one.report EXCEPT !.tables_failed = @ + 1]

\* lines 55-62: the counter of the table's status is incremented
count_status(one) ==
    CASE one.status = "passed" ->
           [one.report EXCEPT !.tables_passed = @ + 1]
      [] one.status = "warning" ->
           [one.report EXCEPT !.tables_with_warnings = @ + 1]
      [] one.status = "failed" ->
           [one.report EXCEPT !.tables_failed = @ + 1]

\* the loop over zip(tables, table_names), from pair st.k on, st.report
\* being the report after the pairs before it
RECURSIVE validate_pairs(_, _, _, _)
validate_pairs(ts, table_names, st, tol) ==
    IF st.k > Len(ts) \/ st.k > Len(table_names) THEN st.report
    ELSE validate_pairs(ts, table_names,
                        [k |-> st.k + 1,
                         report |-> count_status(validate_single_table(
                                        ts[st.k], table_names[st.k], st.report, tol))],
                        tol)

validate_tables(ts, table_names, tol) ==
    LET used_names == IF table_names = None \/ table_names.val = <<>>
                      THEN default_names(ts) ELSE table_names.val
    IN validate_pairs(ts, used_names,
                      [k |-> 1, report |-> ValidationReport("passed", <<>>, Len(ts), 0, 0, 0)],
                      tol)

----------------------------------------------------------------------------
(* PluginRegistry (plugins/base.py) *)

\* PluginRegistry.__init__, and the default of min_confidence
DefaultMinConfidence == [num |-> 5, den |-> 10]

\* what a profile's detect does on the document: it raises, or it returns a
\* PluginDetectionResult with a confidence
Raises == [raises |-> TRUE]
Detected(confidence) == [raises |-> FALSE, confidence |-> confidence]

\* a DocumentPlugin: its id, its detect, and what get_segmentation_strategy
\* and get_score_domains return
DocumentPlugin(plugin_id, detect, strategy_tag, score_domains) ==
    [plugin_id |-> plugin_id, detect |-> detect,
     strategy |-> strategy_tag, score_domains |-> score_domains]

PluginDetectionResult(plugin_id, confidence) ==
    [plugin_id |-> plugin_id, confidence |-> confidence]

\* lines 164-166; a plugin object is named by its position in the registry
NoBest == [best_plugin |-> None, best_result |-> None, best_confidence |-> Int2Num(0)]

\* lines 169-179: one turn of the loop, on the plugin at position k
detect_turn(best, plugin, k, min_conf) ==
    IF plugin.detect.raises THEN best
    ELSE IF /\ NumLt(best.best_confidence, plugin.detect.confidence)
            /\ NumLe(min_conf, plugin.detect.confidence)
    THEN [best_plugin |-> Some(k),
          best_result |-> Some(PluginDetectionResult(plugin.plugin_id,
                                                     plugin.detect.confidence)),
          best_confidence |-> plugin.detect.confidence]
    ELSE best

\* the loop of line 168 over the first k plugins
RECURSIVE detect_loop(_, _, _)
detect_loop(ps, k, min_conf) ==
    IF k = 0 THEN NoBest
    ELSE detect_turn(detect_loop(ps, k - 1, min_conf), ps[k], k, min_conf)

\* lines 181-184
best_or_none(best) ==
    IF best.best_plugin.some /\ best.best_result.some
    THEN Some([plugin |-> best.best_plugin.val, result |-> best.best_result.val])
    ELSE None

\* PluginRegistry.detect_plugin
detect_plugin(ps, min_conf) == best_or_none(detect_loop(ps, Len(ps), min_conf))

----------------------------------------------------------------------------
(* DocumentExtractor (extractor.py), with enable_ocr False.  A document is   *)
(* the suffix of the file and, page by page, the tables pdfplumber or        *)
(* python-docx finds in it: rows of cells, a cell None or Some(str).         *)

Document(suffix, pages) == [suffix |-> suffix, pages |-> pages]
NoDocument == Document(<<>>, <<>>)

\* DocumentExtractor.detect_file_type
detect_file_type(suffix) ==
    IF lower(suffix) = <<".", "p", "d", "f">> THEN "pdf"
    ELSE IF lower(suffix) \in {<<".", "d", "o", "c", "x">>, <<".", "d", "o", "c">>}
    THEN "docx"
    ELSE IF lower(suffix) \in {<<".", "p", "n", "g">>, <<".", "j", "p", "g">>,
                               <<".", "j", "p", "e", "g">>, <<".", "t", "i", "f", "f">>,
                               <<".", "t", "i", "f">>}
    THEN "image"
    ELSE IF lower(suffix) \in {<<".", "w", "a", "v">>, <<".", "m", "p", "3">>,
                               <<".", "m", "4", "a">>}
    THEN "audio"
    ELSE "unknown"

\* lines 239-245: None becomes "", a str is stripped
cleaned_row(row) ==
    [i \in 1..Len(row) |-> IF row[i].some THEN strip(row[i].val) ELSE <<>>]

\* lines 248-249: a row without a non-empty cell is skipped
kept_row(row) == IF \E i \in 1..Len(row) : row[i] # <<>> THEN <<row>> ELSE <<>>

\* DocumentExtractor._clean_table_data
RECURSIVE clean_table_data(_)
clean_table_data(table) ==
    IF table = <<>> THEN <<>>
    ELSE (IF table[1] = <<>> THEN <<>> ELSE kept_row(cleaned_row(table[1])))
         \o clean_table_data(Tail(table))

\* lines 115-123 and 208-216: the fragment of a table whose cleaning is not
\* empty
table_fragment(cleaned_table, page_num, table_idx, source) ==
    IF cleaned_table = <<>> THEN <<>>
    ELSE << [data |-> cleaned_table, page |-> page_num, table_index |-> table_idx,
             source |-> source] >>

\* lines 110-123: the fragments of the first k tables of a page
RECURSIVE page_fragments(_, _, _, _)
page_fragments(page_tables_raw, k, page_num, source) ==
    IF k = 0 THEN <<>>
    ELSE page_fragments(page_tables_raw, k - 1, page_num, source)
         \o table_fragment(clean_table_data(page_tables_raw[k]), page_num, k - 1, source)

\* DocumentExtractor.extract_from_pdf: the fragments of the first n pages
RECURSIVE extract_from_pdf(_, _)
extract_from_pdf(pages, n) ==
    IF n = 0 THEN <<>>
    ELSE extract_from_pdf(pages, n - 1)
         \o page_fragments(pages[n], Len(pages[n]), n, "pdfplumber")

\* doc.tables: the tables of a document in document order
RECURSIVE doc_tables(_)
doc_tables(pages) ==
    IF pages = <<>> THEN <<>> ELSE pages[1] \o doc_tables(Tail(pages))

\* lines 201-204: row_data = [cell.text.strip() for cell in row.cells]
docx_table(table) ==
    [r \in 1..Len(table) |-> [i \in 1..Len(table[r]) |-> Some(strip(table[r][i].val))]]

\* DocumentExtractor.extract_from_docx: every fragment is on page 1
RECURSIVE extract_from_docx(_, _)
extract_from_docx(ts, k) ==
    IF k = 0 THEN <<>>
    ELSE extract_from_docx(ts, k - 1)
         \o table_fragment(clean_table_data(docx_table(ts[k])), 1, k - 1, "python-docx")

\* DocumentExtractor.extract: tables_data, or the error it raises
extract(doc) ==
    IF detect_file_type(doc.suffix) = "pdf"
    THEN Returned(extract_from_pdf(doc.pages, Len(doc.pages)))
    ELSE IF detect_file_type(doc.suffix) = "docx"
    THEN Returned(extract_from_docx(doc_tables(doc.pages), Len(doc_tables(doc.pages))))
    ELSE Raised("ValueError")

\* str(n) of a natural number
RECURSIVE str_int(_)
str_int(n) ==
    IF n < 10 THEN <<CHOOSE c \in Digits : DigitVal(c) = n>>
    ELSE Append(str_int(n \div 10), CHOOSE c \in Digits : DigitVal(c) = n % 10)

\* f"Column_{i+1}" for i in range(n)
column_names(n) ==
    [i \in 1..n |-> <<"C", "o", "l", "u", "m", "n", "_">> \o str_int(i)]

\* lines 278-283: the rows of a page after one more fragment
page_extended(rows, fragment, page) ==
    IF fragment.page # page THEN rows
    ELSE (IF rows # <<>>
          THEN Append(rows, [i \in 1..Len(fragment.data[1]) |-> <<>>])
          ELSE rows) \o fragment.data

\* page_tables_dict[page] after the first k fragments
RECURSIVE page_rows(_, _, _)
page_rows(tables_data, k, page) ==
    IF k = 0 THEN <<>>
    ELSE page_extended(page_rows(tables_data, k - 1, page), tables_data[k], page)

\* lines 294-304
page_schema(data) ==
    IF \A i \in 1..Len(data[1]) : strip(data[1][i]) # <<>>
    THEN [headers |-> data[1], column_count |-> Len(data[1]), has_header |-> TRUE,
          header_row_indices |-> <<0>>]
    ELSE [headers |-> column_names(Len(data[1])), column_count |-> Len(data[1]),
          has_header |-> FALSE, header_row_indices |-> <<>>]

\* lines 306-311
page_table(data, page_num) ==
    [data |-> data, schema |-> page_schema(data), source_pages |-> <<page_num>>,
     table_type |-> "page_preserved", segmentation_strategy |-> None,
     section_title |-> None, score_domain |-> None]

\* lines 286-313: one table for each of the pages up to last that has rows,
\* in the order of the page numbers
RECURSIVE page_tables_up_to(_, _)
page_tables_up_to(tables_data, last) ==
    IF last = 0 THEN <<>>
    ELSE page_tables_up_to(tables_data, last - 1)
         \o (IF page_rows(tables_data, Len(tables_data), last) = <<>> THEN <<>>
             ELSE <<page_table(page_rows(tables_data, Len(tables_data), last), last)>>)

\* the largest page number of the fragments, 0 without fragments
RECURSIVE last_page(_)
last_page(tables_data) ==
    IF tables_data = <<>> THEN 0
    ELSE Max(tables_data[1].page, last_page(Tail(tables_data)))

\* DocumentExtractor.create_page_preserved_tables
create_page_preserved_tables(tables_data) ==
    page_tables_up_to(tables_data, last_page(tables_data))

----------------------------------------------------------------------------
(* ExtractionOptions, RoutedTables, DocumentMetadata and ConversionResult   *)
(* (models.py)                                                              *)

\* a field of an Enum type holds a member of the Enum or, with
\* Config.use_enum_values, the plain value of one
Member(value) == [value |-> value, member |-> TRUE]
Plain(value) == [value |-> value, member |-> FALSE]

ExtractionOptions(mode, output_formats, excel_layout, word_orientation, theme, validation_enabled, validation_tolerance, audit_logging_enabled) ==
    [mode |-> mode, output_formats |-> output_formats, excel_layout |-> excel_layout,
     word_orientation |-> word_orientation, theme |-> theme,
     validation_enabled |-> validation_enabled,
     validation_tolerance |-> validation_tolerance,
     audit_logging_enabled |-> audit_logging_enabled]

\* ExtractionOptions(): every field at its default
DefaultOptions ==
    ExtractionOptions(Member("hybrid"), <<Member("xlsx")>>, Member("separate_sheets"),
                      Member("portrait"), "corporate", TRUE, [num |-> 1, den |-> 100],
                      TRUE)

\* RoutedTables.get_all_tables
get_all_tables(routed_page_tables, logical_tables, mode) ==
    IF mode.value = "hybrid" THEN routed_page_tables \o logical_tables
    ELSE IF mode.value = "page_only" THEN routed_page_tables
    ELSE IF mode.value = "logical_only" THEN logical_tables
    ELSE <<>>

\* DocumentMetadata: the fields convert_document sets
DocumentMetadata(plugin_id, plugin_confidence, extraction_mode, excel_layout_mode, word_orientation, output_formats, theme, validation_status, validation_issues_count) ==
    [plugin_id |-> plugin_id, plugin_confidence |-> plugin_confidence,
     extraction_mode |-> extraction_mode, excel_layout_mode |-> excel_layout_mode,
     word_orientation |-> word_orientation, output_formats |-> output_formats,
     theme |-> theme, validation_status |-> validation_status,
     validation_issues_count |-> validation_issues_count]

\* DocumentMetadata()
DefaultMetadata ==
    DocumentMetadata(None, [num |-> 0, den |-> 1], "hybrid", None, None, <<>>,
                     "corporate", None, 0)

\* ConversionResult, without the report and the error message, which are
\* the variables report and error
ConversionResult(success, output_files, metadata) ==
    [success |-> success, output_files |-> output_files, metadata |-> metadata]

\* ThemeType (themes.py)
ThemeTypes == {"corporate", "indigenous"}

----------------------------------------------------------------------------
(* ConversionController.convert_document (controller.py).  The call is      *)
(* followed through its steps on a record s of what it has computed so far: *)
(* tables_data (fragments), plugin_result, page_tables, strategy, domains,  *)
(* logical tables (tables), the validator's tolerance, the report, the      *)
(* error, the result and the audit log.  An output file is the format it    *)
(* is written in and, for CSV, the number of its table.                     *)

\* lines 104-110 with the strategy detector consulted first
segmenter_arguments_detector_first(ps, selected, all_tables) ==
    IF selected.some /\ detect_strategy(all_tables) = ps[selected.val.plugin].strategy
    THEN [strategy |-> ps[selected.val.plugin].strategy,
          score_domains |-> ps[selected.val.plugin].score_domains]
    ELSE [strategy |-> detect_strategy(all_tables), score_domains |-> None]

\* lines 104-110: the strategy and the score domains handed to the segmenter
segmenter_arguments(ps, selected, all_tables) ==
    IF selected.some
    THEN [strategy |-> ps[selected.val.plugin].strategy,
          score_domains |-> ps[selected.val.plugin].score_domains]
    ELSE [strategy |-> detect_strategy(all_tables), score_domains |-> None]

\* lines 112-114: segmenter.segment_tables(tables_data, strategy, score_domains)
segment_with(all_tables, arguments) ==
    segment_tables(all_tables, arguments.strategy, arguments.score_domains)

\* lines 214-233: the result of a call in which e was raised
failed_conversion(s, e) ==
    [s EXCEPT !.error = e,
              !.report = ValidationReport("failed", <<>>, 0, 0, 0, 0),
              !.result = Some(ConversionResult(FALSE, <<>>, DefaultMetadata))]

\* lines 39-79 of audit.py: the entry log_conversion writes for a result
log_entry(s) ==
    [plugin_id |-> s.result.val.metadata.plugin_id,
     output_files |-> s.result.val.output_files,
     extraction_mode |-> s.result.val.metadata.extraction_mode,
     status |-> s.report.overall_status,
     tables_validated |-> s.report.tables_validated,
     tables_passed |-> s.report.tables_passed,
     tables_with_warnings |-> s.report.tables_with_warnings,
     tables_failed |-> s.report.tables_failed,
     issues_count |-> Len(s.report.issues),
     success |-> s.result.val.success,
     error_message |-> s.error]

\* lines 208-212: step 9
log_audit(opts, s) ==
    IF s.audit_log.some /\ opts.audit_logging_enabled
    THEN [s EXCEPT !.audit_log = Some(Append(s.audit_log.val, log_entry(s)))]
    ELSE s

\* lines 166-194: the files of one output format
format_files(output_format, logical_tables) ==
    IF output_format.value = "xlsx" THEN <<[format |-> "xlsx", table |-> 0]>>
    ELSE IF output_format.value = "docx" THEN <<[format |-> "docx", table |-> 0]>>
    ELSE IF output_format.value = "csv"
    THEN [idx \in 1..Len(logical_tables) |-> [format |-> "csv", table |-> idx]]
    ELSE <<>>

\* lines 165-194: the files of the first k output formats
RECURSIVE output_files(_, _, _)
output_files(output_formats, k, logical_tables) ==
    IF k = 0 THEN <<>>
    ELSE output_files(output_formats, k - 1, logical_tables)
         \o format_files(output_formats[k], logical_tables)

\* lines 155-212: steps 7 to 9; ThemeType(options.theme) raises ValueError
\* for a theme that is no member
generate_outputs(opts, metadata, s) ==
    IF opts.theme \notin ThemeTypes THEN failed_conversion(s, "ValueError")
    ELSE log_audit(opts,
             [s EXCEPT !.result =
                  Some(ConversionResult(TRUE,
                           output_files(opts.output_formats, Len(opts.output_formats),
                                        s.tables),
                           metadata))])

\* lines 151-153
validated_metadata(metadata, the_report) ==
    [metadata EXCEPT !.validation_status = Some(the_report.overall_status),
                     !.validation_issues_count = Len(the_report.issues)]

\* lines 139-149
validation_report(opts, tables_to_validate) ==
    IF opts.validation_enabled
    THEN validate_tables(tables_to_validate, None, opts.validation_tolerance)
    ELSE ValidationReport("passed", <<>>, 0, 0, 0, 0)

\* lines 151-153 and what follows, with the report of step 6
reported(opts, metadata, s, the_report) ==
    generate_outputs(opts, validated_metadata(metadata, the_report),
        [s EXCEPT !.tolerance = opts.validation_tolerance, !.report = the_report])

\* lines 132-153: step 6
validate_routed(opts, metadata, s) ==
    reported(opts, metadata, s,
        validation_report(opts, get_all_tables(s.page_tables, s.tables, opts.mode)))

\* lines 126-129: .value of a plain value raises AttributeError
has_values(opts) ==
    /\ opts.mode.member
    /\ opts.excel_layout.member
    /\ opts.word_orientation.member
    /\ \A i \in 1..Len(opts.output_formats) : opts.output_formats[i].member

\* lines 116-121: the metadata of the selected profile, or DocumentMetadata()
extracted_metadata(ps, selected) ==
    IF selected.some
    THEN [DefaultMetadata EXCEPT !.plugin_id = Some(ps[selected.val.plugin].plugin_id),
                                 !.plugin_confidence = selected.val.result.confidence]
    ELSE DefaultMetadata

\* lines 123-130
completed_metadata(metadata, opts) ==
    [metadata EXCEPT !.extraction_mode = opts.mode.value,
                     !.excel_layout_mode = Some(opts.excel_layout.value),
                     !.word_orientation = Some(opts.word_orientation.value),
                     !.output_formats = [i \in 1..Len(opts.output_formats) |->
                                            opts.output_formats[i].value],
                     !.theme = opts.theme]

\* lines 116-130: step 5
extract_metadata(opts, ps, s) ==
    IF has_values(opts)
    THEN validate_routed(opts,
             completed_metadata(extracted_metadata(ps, s.plugin_result), opts), s)
    ELSE failed_conversion(s, "AttributeError")

\* lines 112-114 and what follows: the segmenter returned or raised
segmented(opts, ps, segmentation, s) ==
    IF segmentation.error # "none" THEN failed_conversion(s, segmentation.error)
    ELSE extract_metadata(opts, ps, [s EXCEPT !.tables = segmentation.tables])

\* lines 102-114: step 4, with each outcome of the segmenter
segment_logical_tables(opts, ps, arguments, s) ==
    {segmented(opts, ps, segmentation,
               [s EXCEPT !.strategy = arguments.strategy,
                         !.domains = arguments.score_domains]) :
        segmentation \in segment_with(s.fragments, arguments)}

\* lines 84-100: steps 2 and 3
detect_and_preserve(opts, ps, s) ==
    segment_logical_tables(opts, ps,
        segmenter_arguments(ps, detect_plugin(ps, DefaultMinConfidence), s.fragments),
        [s EXCEPT !.plugin_result = detect_plugin(ps, DefaultMinConfidence),
                  !.page_tables = create_page_preserved_tables(s.fragments)])

\* ConversionController.convert_document: the outcomes of the call
convert_document(doc, opts, ps, s) ==
    IF extract(doc).error # "none" THEN {failed_conversion(s, extract(doc).error)}
    ELSE detect_and_preserve(opts, ps, [s EXCEPT !.fragments = extract(doc).tables])

----------------------------------------------------------------------------
(* Inputs *)

MaxRows == 3      \* rows of all fragments of an enumerated call together
MaxFrags == 2     \* fragments of an enumerated call

\* the sequences over S of length at most n
RECURSIVE SeqsUpTo(_, _)
SeqsUpTo(S, n) ==
    IF n = 0 THEN {<<>>}
    ELSE LET shorter == SeqsUpTo(S, n - 1)
         IN shorter \cup {Append(q, x) : q \in {t \in shorter : Len(t) = n - 1}, x \in S}

\* the ways to cut the row sequence m into f consecutive pieces (empty pieces too)
RECURSIVE Splits(_, _)
Splits(m, f) ==
    IF f = 0 THEN (IF m = <<>> THEN {<<>>} ELSE {})
    ELSE UNION {{<<SubSeq(m, 1, k)>> \o rest :
                   rest \in Splits(SubSeq(m, k + 1, Len(m)), f - 1)} : k \in 0..Len(m)}

Fragment(page, data) == [page |-> page, data |-> data]

\* fragments is a list of at most MaxFrags fragments and MaxRows rows over a
\* pool of rows and a pool of page numbers
FragmentLists(rowPool, pagePool) ==
    \E m \in SeqsUpTo(rowPool, MaxRows), f \in 0..MaxFrags :
       \E sp \in Splits(m, f), pg \in [1..f -> pagePool] :
          fragments = [i \in 1..f |-> Fragment(pg[i], sp[i])]

\* cells
cScore == <<"S", "c", "o", "r", "e">>
cFreq == <<"F", "r", "e", "q">>
cName == <<"N", "a", "m", "e">>
cDept == <<"D", "e", "p", "t">>

\* rows of a score distribution
rScoreHeader == <<cScore, cFreq>>
rScore0 == << <<"0">>, <<"5">> >>
rScore10 == << <<"1", "0">>, <<"3">> >>
rScore15 == << <<" ", "1", "5">>, <<"2">> >>
rScore20 == << <<"2", "0">>, <<"1">> >>
rScore19h == << <<"1", "9", ".", "5">>, <<"4">> >>
rScoreText == << <<"n", "/", "a">>, <<"1">> >>
ScoreRows == {rScoreHeader, rScore0, rScore15, rScore20, rScore19h, rScoreText}

\* rows of a roster
rHeader == <<cName, cDept>>
rHeaderVariant == << <<" ", "n", "a", "m", "e">>, <<"D", "E", "P", "T", " ">> >>
rTitle == << <<"S", "e", "c", " ", "A">>, <<>> >>
rAnn == << <<"A", "n", "n">>, <<"H", "R">> >>
rBob == << <<"B", "o", "b">>, <<"I", "T">> >>
rEve == << <<"E", "v", "e">>, <<"H", "R">> >>
RosterRows == {rHeader, rHeaderVariant, rTitle, rAnn, rBob}

\* the score_domains argument: absent, or the domains a caller supplies
dLow == ScoreDomain(<<"Scaled Objective">>, 0, 19)
dHigh == ScoreDomain(<<"Scaled Essay">>, 20, 40)
dEssay == ScoreDomain(<<"Essay">>, 15, 40)
DomainChoices ==
    {None, Some(<<dLow, dHigh>>), Some(<<dHigh, dLow>>), Some(<<dLow, dEssay>>)}

\* the scenarios of the specification's section 8
ScoreScenario ==
    <<Fragment(1, <<rScoreHeader, rScore0, rScore10>>),
      Fragment(2, <<rScore15, rScore20>>)>>
RosterScenario ==
    <<Fragment(1, <<rHeader, rTitle, rAnn, rBob>>), Fragment(2, <<rHeader, rEve>>)>>

\* the most rows after each header row of a roster that starts before its
\* first header row
MaxFollowing == 2

\* rosters with a row before the first header row: the header row on page 1
\* and on page 2, each followed by up to MaxFollowing rows
LeadingRowRosters ==
    {<<Fragment(1, <<lead, rHeader>> \o first), Fragment(2, <<rHeaderVariant>> \o second)>> :
        lead \in {rEve, rTitle, rAnn},
        first \in SeqsUpTo({rAnn, rBob, rTitle}, MaxFollowing),
        second \in SeqsUpTo({rAnn, rBob, rTitle}, MaxFollowing)}

EmptyReport == ValidationReport("passed", <<>>, 0, 0, 0, 0)
DefaultTolerance == [num |-> 1, den |-> 100]

NoRegistry ==
    /\ plugins = <<>>
    /\ min_confidence = DefaultMinConfidence
    /\ plugin_result = None

\* the widgets as _create_ui leaves them: XLSX checked, Portrait checked, the
\* first item of the combo box current, Corporate Theme checked
CreatedWidgets ==
    [xlsx_check |-> TRUE, docx_check |-> FALSE, csv_check |-> FALSE,
     portrait_radio |-> TRUE, excel_layout_combo |-> "separate_sheets",
     corporate_radio |-> TRUE]

\* MainWindow.__init__ and _create_ui: no file, the convert button disabled
NoWindow ==
    /\ selected_files = <<>>
    /\ current_file_index = 0
    /\ convert_enabled = FALSE
    /\ workers = <<>>
    /\ completions = 0
    /\ conversion_options = None
    /\ xlsx_check = CreatedWidgets.xlsx_check
    /\ docx_check = CreatedWidgets.docx_check
    /\ csv_check = CreatedWidgets.csv_check
    /\ portrait_radio = CreatedWidgets.portrait_radio
    /\ excel_layout_combo = CreatedWidgets.excel_layout_combo
    /\ corporate_radio = CreatedWidgets.corporate_radio
    /\ current_theme = "corporate"
    /\ settings_changed = 0

\* a process that has just started
NewProcess == process = [hash_seed |-> 0, now |-> 0]

\* a controller without audit directory, before any convert_document
NoConversion ==
    /\ document = NoDocument
    /\ options = DefaultOptions
    /\ page_tables = <<>>
    /\ result = None
    /\ audit_log = None

\* nothing called yet
Idle ==
    /\ NoRegistry
    /\ NoWindow
    /\ NewProcess
    /\ NoConversion
    /\ strategy = "auto"
    /\ domains = None
    /\ tables = <<>>
    /\ names = None
    /\ report = EmptyReport
    /\ tolerance = DefaultTolerance
    /\ error = "none"
    /\ pc = "input"

----------------------------------------------------------------------------
(* Calls of the segmenters *)

\* segmenter.segment_by_score_domain(fragments, score_domains=d)
SegmentByScoreDomain ==
    /\ pc = "input"
    /\ \E d \in DomainChoices :
          \E outcome \in segment_by_score_domain(fragments, d) :
             /\ domains' = d
             /\ tables' = outcome.tables
             /\ error' = outcome.error
    /\ pc' = "segment_by_score_domain"
    /\ UNCHANGED <<fragments, strategy, names, report, tolerance>>
    /\ UNCHANGED <<registry, window, process, conversion>>

\* segmenter.segment_by_header_repetition(fragments)
SegmentByHeaderRepetition ==
    /\ pc = "input"
    /\ tables' = segment_by_header_repetition(fragments)
    /\ pc' = "segment_by_header_repetition"
    /\ UNCHANGED <<fragments, strategy, domains, names, report, tolerance, error>>
    /\ UNCHANGED <<registry, window, process, conversion>>

InitScore ==
    /\ FragmentLists(ScoreRows, {1}) \/ fragments = ScoreScenario
    /\ Idle
SpecScore == InitScore /\ [][SegmentByScoreDomain]_vars

InitHeader ==
    /\ \/ FragmentLists(RosterRows, {1})
       \/ fragments = RosterScenario
       \/ fragments \in LeadingRowRosters
    /\ Idle
SpecHeader == InitHeader /\ [][SegmentByHeaderRepetition]_vars

\* fragments on two pages, some of them empty
PageRows == {rScoreHeader, rScore0}
InitPages ==
    /\ FragmentLists(PageRows, {1, 2})
    /\ Idle
SpecPages == InitPages /\ [][SegmentByScoreDomain \/ SegmentByHeaderRepetition]_vars

\* segmenter._detect_strategy(fragments), as the controller calls it
DetectStrategy ==
    /\ pc = "input"
    /\ strategy' = detect_strategy(fragments)
    /\ pc' = "detect_strategy"
    /\ UNCHANGED <<fragments, domains, tables, names, report, tolerance, error>>
    /\ UNCHANGED <<registry, window, process, conversion>>

\* the strategy tags a caller passes: the three of SegmentationStrategy and
\* one that is none of them
StrategyTags == {"score_domain", "header_repetition", "auto", "page_grid"}

\* segmenter.segment_tables(fragments, tag, score_domains=d)
SegmentTables ==
    /\ pc = "input"
    /\ \E tag \in StrategyTags, d \in {None, Some(<<dLow, dHigh>>)} :
          \E outcome \in segment_tables(fragments, tag, d) :
             /\ strategy' = tag
             /\ domains' = d
             /\ tables' = outcome.tables
             /\ error' = outcome.error
    /\ pc' = "segment_tables"
    /\ UNCHANGED <<fragments, names, report, tolerance>>
    /\ UNCHANGED <<registry, window, process, conversion>>

MaxColumnRows == 10   \* rows after the first of a fragment of ColumnFragments

\* n copies of a row
Repeat(row, n) == [i \in 1..n |-> row]

\* a header row, then k rows with a numeric first cell and n - k rows with text
ColumnFragment(n, k) ==
    Fragment(1, <<rScoreHeader>> \o Repeat(rScore15, k) \o Repeat(rScoreText, n - k))
ColumnFragments ==
    UNION {{ColumnFragment(n, k) : k \in 0..n} : n \in 0..MaxColumnRows}

\* no fragment, one fragment, a roster fragment before one, and the scenarios
DispatchInputs ==
    {<<>>, ScoreScenario, RosterScenario}
    \cup {<<f>> : f \in ColumnFragments}
    \cup {<<Fragment(1, <<rHeader, rAnn>>), f>> : f \in ColumnFragments}

InitDispatch ==
    /\ fragments \in DispatchInputs
    /\ Idle
SpecDispatch == InitDispatch /\ [][DetectStrategy \/ SegmentTables]_vars

----------------------------------------------------------------------------
(* Calls of ValidationReport.add_issue on one report *)

MaxIssues == 4    \* issues added to one report

\* issues of each severity, for two tables
IssuePool ==
    {ValidationIssue(sev, "issue", <<"Table_", 1>>, None, None) :
       sev \in {"passed", "warning", "failed"}}
    \cup {ValidationIssue("warning", "issue", <<"Table_", 2>>, Some(0), None)}

\* report.add_issue(issue)
AddIssue ==
    /\ pc \in {"input", "add_issue"}
    /\ Len(report.issues) < MaxIssues
    /\ \E issue \in IssuePool : report' = add_issue(report, issue)
    /\ pc' = "add_issue"
    /\ UNCHANGED <<fragments, strategy, domains, tables, names, tolerance, error>>
    /\ UNCHANGED <<registry, window, process, conversion>>

InitReport ==
    /\ fragments = <<>>
    /\ Idle
SpecReport == InitReport /\ [][AddIssue]_vars

----------------------------------------------------------------------------
(* Calls of validate_tables *)

MaxTables == 2    \* tables of one validate_tables call

cPercent == <<"P", "e", "r", "c", "e", "n", "t">>

\* logical tables whose first row is the header
LogicalTable(rows) ==
    ExtractedTable(rows, TableSchema(rows[1]), <<1>>, Some("header_repetition"), None, None)

tOk == LogicalTable(<<rHeader, rAnn, rBob>>)
tDuplicate == LogicalTable(<<rHeader, rAnn, rAnn>>)
tRagged == LogicalTable(<<rHeader, rAnn, <<rBob[1]>> >>)
tPercentShort ==
    LogicalTable(<<<<cScore, cPercent>>, <<<<"0">>, <<"5", "0">>>>,
                   <<<<"1", "0">>, <<"4", "0">>>>>>)
TablePool == {tOk, tDuplicate, tRagged, tPercentShort}

\* no names, or the first n of a list one longer than the longest table list
NameChoices ==
    {None} \cup {Some([i \in 1..n |-> <<"Name_", i>>]) : n \in 0..(MaxTables + 1)}

\* validator.validate_tables(tables, names)
ValidateTables ==
    /\ pc = "input"
    /\ report' = validate_tables(tables, names, tolerance)
    /\ pc' = "validate_tables"
    /\ UNCHANGED <<fragments, strategy, domains, tables, names, tolerance, error>>
    /\ UNCHANGED <<registry, window, process, conversion>>

InitValidate ==
    /\ fragments = <<>>
    /\ strategy = "auto"
    /\ domains = None
    /\ tables \in SeqsUpTo(TablePool, MaxTables)
    /\ names \in NameChoices
    /\ report = EmptyReport
    /\ tolerance = DefaultTolerance
    /\ error = "none"
    /\ pc = "input"
    /\ NoRegistry
    /\ NoWindow
    /\ NewProcess
    /\ NoConversion
SpecValidate == InitValidate /\ [][ValidateTables]_vars

----------------------------------------------------------------------------
(* Calls of validate_tables on one table, for the rules *)

\* ExtractedTable with a schema given apart from its rows
RuleTable(schema_header, has_header, rows) ==
    [data |-> rows,
     schema |-> [TableSchema(schema_header) EXCEPT !.has_header = has_header],
     source_pages |-> <<1>>, table_type |-> "logical",
     segmentation_strategy |-> None, section_title |-> None, score_domain |-> None]

\* the tables of a header row and at most MaxRows rows of a pool
TablesOver(schema_header, has_header, header, rowPool) ==
    {RuleTable(schema_header, has_header, <<header>> \o rows) :
       rows \in SeqsUpTo(rowPool, MaxRows)}

\* roster rows that are equal after strip, blank rows, and the header again
rAnnPadded == << <<" ", "A", "n", "n">>, <<"H", "R", " ">> >>
rBlank == << <<>>, <<" ">> >>
DuplicateRows == {rAnn, rAnnPadded, rBlank, rHeader}
DuplicateTables ==
    TablesOver(rHeader, TRUE, rHeader, DuplicateRows)
    \cup TablesOver(rHeader, FALSE, rHeader, DuplicateRows)

\* rows of one, two and three cells, under a header of two or three columns
rOneCell == << <<"A", "n", "n">> >>
rThreeCells == << <<"A", "n", "n">>, <<"H", "R">>, <<"x">> >>
RaggedRows == {rAnn, rOneCell, rThreeCells}
RaggedTables ==
    TablesOver(rHeader, TRUE, rHeader, RaggedRows)
    \cup TablesOver(rThreeCells, TRUE, rHeader, RaggedRows)

\* rows of a percent column
PercentCells ==
    {<<"5", "0", "%">>, <<"4", "9">>, <<"5", "1">>, <<"0", ".", "5">>, <<"1", "6", ".", "6">>, <<"5", "8", ".", "7">>, <<"2", "5", ".", "7">>, <<"n", "/", "a">>}
PercentRows == {<< <<"0">>, c >> : c \in PercentCells}
PercentTables == TablesOver(<<cScore, cPercent>>, TRUE, <<cScore, cPercent>>, PercentRows)

\* rows of a cumulative column, one of them too short to have it
cCumulative == <<"C", "u", "m", "u", "l", "a", "t", "i", "v", "e">>
CumulativeCells == {<<"1", "0">>, <<"2", "0">>, <<"1", "5">>, <<"n", "/", "a">>}
CumulativeRows == {<< <<"0">>, c >> : c \in CumulativeCells} \cup {<< <<"0">> >>}
CumulativeTables ==
    TablesOver(<<cScore, cCumulative>>, TRUE, <<cScore, cCumulative>>, CumulativeRows)

RuleTables == DuplicateTables \cup RaggedTables \cup PercentTables \cup CumulativeTables

InitRules ==
    /\ fragments = <<>>
    /\ strategy = "auto"
    /\ domains = None
    /\ tables \in {<<t>> : t \in RuleTables}
    /\ names = None
    /\ report = EmptyReport
    /\ tolerance = DefaultTolerance
    /\ error = "none"
    /\ pc = "input"
    /\ NoRegistry
    /\ NoWindow
    /\ NewProcess
    /\ NoConversion
SpecRules == InitRules /\ [][ValidateTables]_vars

----------------------------------------------------------------------------
(* Calls of PluginRegistry.register and PluginRegistry.detect_plugin *)

MaxPlugins == 3   \* profiles registered

\* WAECMarksDistPlugin.get_score_domains
WaecDomains ==
    <<ScoreDomain(<<"Scaled_Objective">>, 0, 19), ScoreDomain(<<"Scaled_Essay">>, 15, 40),
      ScoreDomain(<<"Raw_Score_40">>, 0, 40), ScoreDomain(<<"Raw_Score_50">>, 0, 50),
      ScoreDomain(<<"Raw_Score_60">>, 0, 60)>>

\* the confidences 0.0, 0.3, 0.5 and 0.9
Confidences ==
    {Int2Num(0), [num |-> 3, den |-> 10], [num |-> 5, den |-> 10], [num |-> 9, den |-> 10]}

DetectOutcomes == {Raises} \cup {Detected(c) : c \in Confidences}

\* the two shipped profiles, with each outcome of detect
WaecPlugin(detect) ==
    DocumentPlugin("waec_marksdist", detect, "score_domain", Some(WaecDomains))
StaffListPlugin(detect) ==
    DocumentPlugin("international_staff_list", detect, "header_repetition", None)

PluginPool ==
    {WaecPlugin(d) : d \in DetectOutcomes} \cup {StaffListPlugin(d) : d \in DetectOutcomes}

\* registry.register(plugin)
Register ==
    /\ pc = "input"
    /\ Len(plugins) < MaxPlugins
    /\ \E plugin \in PluginPool : plugins' = Append(plugins, plugin)
    /\ UNCHANGED <<fragments, strategy, domains, tables, names, report, tolerance,
                   error, pc, min_confidence, plugin_result, window, process, conversion>>

\* registry.detect_plugin(tables_data, page_texts, context, min_confidence)
DetectPlugin ==
    /\ pc = "input"
    /\ plugin_result' = detect_plugin(plugins, min_confidence)
    /\ pc' = "detect_plugin"
    /\ UNCHANGED <<fragments, strategy, domains, tables, names, report, tolerance,
                   error, plugins, min_confidence, window, process, conversion>>

InitRegistry ==
    /\ fragments = <<>>
    /\ strategy = "auto"
    /\ domains = None
    /\ tables = <<>>
    /\ names = None
    /\ report = EmptyReport
    /\ tolerance = DefaultTolerance
    /\ error = "none"
    /\ pc = "input"
    /\ plugins = <<>>
    /\ min_confidence \in {Int2Num(0), DefaultMinConfidence}
    /\ plugin_result = None
    /\ NoWindow
    /\ NewProcess
    /\ NoConversion
SpecRegistry == InitRegistry /\ [][Register \/ DetectPlugin]_vars

----------------------------------------------------------------------------
(* Calls of convert_document on a registry *)

\* raw rows: a cell with blanks around it, a cell None, a row of blank cells
wScoreHeader == <<Some(<<" ", "S", "c", "o", "r", "e">>), Some(cFreq)>>
wScore0 == <<Some(<<"0">>), Some(<<"5">>)>>
wScore10 == <<Some(<<"1", "0">>), Some(<<"3">>)>>
wScore15 == <<Some(<<" ", "1", "5">>), Some(<<"2">>)>>
wScore20 == <<Some(<<"2", "0", "\r">>), Some(<<"1">>)>>
wScoreNone == <<Some(<<"3", "0">>), None>>
wScoreNaN == <<Some(<<"n", "a", "n">>), Some(<<"1">>)>>
wScoreInf == <<Some(<<"1", "e", "4", "0", "0">>), Some(<<"1">>)>>
wBlank == <<None, Some(<<" ">>)>>
wHeader == <<Some(cName), Some(cDept)>>
wTitle == <<Some(<<"S", "e", "c", " ", "A">>), Some(<<>>)>>
wAnn == <<Some(<<"A", "n", "n">>), Some(<<"H", "R">>)>>
wBob == <<Some(<<"B", "o", "b">>), Some(<<"I", "T">>)>>
wEve == <<Some(<<"E", "v", "e">>), Some(<<"H", "R">>)>>

cPdf == <<".", "p", "d", "f">>

\* the scenarios of the specification's section 8 as documents, one table on
\* each page; a page without table; a table of blank rows only
ScoreDocument ==
    Document(cPdf, << <<<<wScoreHeader, wScore0, wBlank, wScore10>>>>, <<>>,
                      <<<<wScore15, <<>>, wScore20>>, <<wBlank>>>> >>)
RosterDocument ==
    Document(<<".", "P", "D", "F">>,
             << <<<<wHeader, wTitle, wAnn, wBob>>>>, <<<<wHeader, wEve>>>> >>)
\* two tables on one page, the second without a full first row
TwoTableDocument ==
    Document(cPdf, << <<<<wScoreHeader, wScore0>>, <<wScoreNone, wScore20>>>> >>)
\* first-column cells that float() reads as nan and as inf
NaNDocument ==
    Document(cPdf, << <<<<wScoreHeader, wScore0, wScoreNaN, wScore20>>>> >>)
InfDocument ==
    Document(cPdf, << <<<<wScoreHeader, wScore0, wScoreInf>>>> >>)
WordDocument ==
    Document(<<".", "d", "o", "c", "x">>, << <<<<wHeader, wAnn, wTitle>>, <<wHeader, wBob>>>> >>)
ImageDocument == Document(<<".", "p", "n", "g">>, <<>>)

Documents ==
    {Document(cPdf, <<>>), ScoreDocument, RosterDocument, TwoTableDocument, NaNDocument,
     InfDocument, WordDocument, ImageDocument}

\* the default options; each extraction mode; validation disabled; the
\* other output formats; a theme that is none; a mode held as a plain value
OptionChoices ==
    {DefaultOptions,
     [DefaultOptions EXCEPT !.mode = Member("page_only"), !.audit_logging_enabled = FALSE],
     [DefaultOptions EXCEPT !.mode = Member("logical_only"),
                            !.output_formats = <<Member("csv"), Member("docx"),
                                                 Member("pdf")>>],
     [DefaultOptions EXCEPT !.validation_enabled = FALSE],
     [DefaultOptions EXCEPT !.theme = "dark"],
     [DefaultOptions EXCEPT !.mode = Plain("hybrid")]}

\* controller.convert_document(input_file, options)
ConvertDocument ==
    /\ pc = "input"
    /\ \E outcome \in convert_document(document, options, plugins,
                          [fragments |-> fragments, plugin_result |-> plugin_result,
                           page_tables |-> page_tables, strategy |-> strategy,
                           domains |-> domains, tables |-> tables,
                           tolerance |-> tolerance, report |-> report, error |-> error,
                           result |-> result, audit_log |-> audit_log]) :
          /\ fragments' = outcome.fragments
          /\ plugin_result' = outcome.plugin_result
          /\ page_tables' = outcome.page_tables
          /\ strategy' = outcome.strategy
          /\ domains' = outcome.domains
          /\ tables' = outcome.tables
          /\ tolerance' = outcome.tolerance
          /\ report' = outcome.report
          /\ error' = outcome.error
          /\ result' = outcome.result
          /\ audit_log' = outcome.audit_log
    /\ pc' = "convert_document"
    /\ UNCHANGED <<names, plugins, min_confidence, window, process, document, options>>

\* the registries a controller is constructed with: none, one or two of the
\* shipped profiles, detecting above, at and below the threshold or raising
Registries ==
    {<<>>,
     <<WaecPlugin(Detected([num |-> 9, den |-> 10]))>>,
     <<WaecPlugin(Detected([num |-> 3, den |-> 10]))>>,
     <<StaffListPlugin(Detected([num |-> 5, den |-> 10]))>>,
     <<StaffListPlugin(Raises), WaecPlugin(Detected([num |-> 5, den |-> 10]))>>,
     <<StaffListPlugin(Detected([num |-> 9, den |-> 10])),
       WaecPlugin(Detected([num |-> 9, den |-> 10]))>>,
     <<WaecPlugin(Detected([num |-> 5, den |-> 10])),
       StaffListPlugin(Detected([num |-> 9, den |-> 10]))>>,
     <<WaecPlugin(Raises), StaffListPlugin(Detected(Int2Num(0)))>>}

\* ConversionController(plugin_registry, output_dir, audit_dir)
InitConvert ==
    /\ document \in Documents
    /\ options \in OptionChoices
    /\ audit_log \in {None, Some(<<>>)}
    /\ page_tables = <<>>
    /\ result = None
    /\ fragments = <<>>
    /\ plugins \in Registries
    /\ min_confidence = DefaultMinConfidence
    /\ plugin_result = None
    /\ NoWindow
    /\ NewProcess
    /\ strategy = "auto"
    /\ domains = None
    /\ tables = <<>>
    /\ names = None
    /\ report = EmptyReport
    /\ tolerance = DefaultTolerance
    /\ error = "none"
    /\ pc = "input"
SpecConvert == InitConvert /\ [][ConvertDocument]_vars

----------------------------------------------------------------------------
(* Runs of convert_document on the same input, each in a process of its own *)

MaxRuns == 3      \* runs on one input
HashSeeds == {0, 1}

\* ValidationReport.timestamp: datetime.now() when the report is created
Stamped(r, now) ==
    [f \in DOMAIN r \cup {"timestamp"} |-> IF f = "timestamp" THEN now ELSE r[f]]

\* two header rows that both repeat, one table on each page
TwoPatternsDocument ==
    Document(cPdf, << <<<<wHeader, wAnn, wBob>>>>, <<<<wHeader, wAnn, wEve>>>> >>)

\* a table with a percent column that does not sum to 100
wPercentHeader == <<Some(cScore), Some(cPercent)>>
wPercent40 == <<Some(<<"0">>), Some(<<"4", "0">>)>>
wPercent50 == <<Some(<<"1", "0">>), Some(<<"5", "0">>)>>
PercentDocument == Document(cPdf, << <<<<wPercentHeader, wPercent40, wPercent50>>>> >>)

RunDocuments ==
    {Document(cPdf, <<>>), ScoreDocument, RosterDocument, TwoPatternsDocument,
     PercentDocument, NaNDocument, InfDocument}

\* the default options; page tables only; validation disabled; a mode held
\* as a plain value
RunOptions ==
    {DefaultOptions,
     [DefaultOptions EXCEPT !.mode = Member("page_only")],
     [DefaultOptions EXCEPT !.validation_enabled = FALSE],
     [DefaultOptions EXCEPT !.mode = Plain("hybrid")]}

RunRegistries ==
    {<<>>,
     <<WaecPlugin(Detected([num |-> 9, den |-> 10]))>>,
     <<StaffListPlugin(Detected([num |-> 9, den |-> 10]))>>}

\* what a call of convert_document starts from: nothing extracted, detected,
\* segmented or validated yet, and the audit log of the controller
NewCall(log) ==
    [fragments |-> <<>>, plugin_result |-> None, page_tables |-> <<>>,
     strategy |-> "auto", domains |-> None, tables |-> <<>>,
     tolerance |-> DefaultTolerance, report |-> EmptyReport, error |-> "none",
     result |-> None, audit_log |-> log]

\* controller.convert_document(input_file, options) once more on the same
\* file, options and registry, in a process with its own hash seed, at a
\* later time: extraction, detection, segmentation, validation of the routed
\* tables, outputs and audit entry, or the result of lines 214-233
ConvertAgain ==
    /\ pc \in {"input", "run"}
    /\ process.now < MaxRuns
    /\ \E seed \in HashSeeds : process' = [hash_seed |-> seed, now |-> process.now + 1]
    /\ \E outcome \in convert_document(document, options, plugins, NewCall(audit_log)) :
          /\ fragments' = outcome.fragments
          /\ plugin_result' = outcome.plugin_result
          /\ page_tables' = outcome.page_tables
          /\ strategy' = outcome.strategy
          /\ domains' = outcome.domains
          /\ tables' = outcome.tables
          /\ tolerance' = outcome.tolerance
          /\ report' = Stamped(outcome.report, process'.now)
          /\ error' = outcome.error
          /\ result' = outcome.result
          /\ audit_log' = outcome.audit_log
    /\ pc' = "run"
    /\ UNCHANGED <<names, plugins, min_confidence, window, document, options>>

\* ConversionController(plugin_registry, output_dir, audit_dir) and the
\* input file and options of the runs
InitRuns ==
    /\ document \in RunDocuments
    /\ options \in RunOptions
    /\ audit_log \in {None, Some(<<>>)}
    /\ page_tables = <<>>
    /\ result = None
    /\ fragments = <<>>
    /\ plugins \in RunRegistries
    /\ min_confidence = DefaultMinConfidence
    /\ plugin_result = None
    /\ NoWindow
    /\ NewProcess
    /\ strategy = "auto"
    /\ domains = None
    /\ tables = <<>>
    /\ names = None
    /\ report = EmptyReport
    /\ tolerance = DefaultTolerance
    /\ error = "none"
    /\ pc = "input"
SpecRuns == InitRuns /\ [][ConvertAgain]_vars

----------------------------------------------------------------------------
(* Calls of the score-domain segmenter and of the validator on rows with    *)
(* cells that are not numbers                                               *)

CellHeader == <<cScore, cPercent, cFreq, cCumulative>>

\* cells float() rejects
UnparseableCells == {<<"n", "/", "a">>, <<"-", "-">>, <<>>}

\* rows of score, percent, frequency and cumulative cells
CellRows ==
    {<< <<"5">>, <<"6", "0">>, <<"3">>, <<"1", "0">> >>,
     << <<"n", "/", "a">>, <<"4", "0">>, <<"-", "1">>, <<"2", "0">> >>,
     << <<"5", "0">>, <<"n", "/", "a">>, <<"-", "-">>, <<>> >>,
     << <<"1", "0">>, <<"4", "0">>, <<"-", "1">>, <<"5">> >>,
     << <<"-", "-">>, <<>>, <<"n", "/", "a">>, <<"1", "5">> >>}

\* a table of the rows, with the score domain 0-19
CellTable(rows) ==
    [RuleTable(CellHeader, TRUE, <<CellHeader>> \o rows) EXCEPT !.score_domain = Some(dLow)]

InitCells ==
    /\ \E rows \in SeqsUpTo(CellRows, MaxRows) :
          /\ fragments = <<Fragment(1, <<CellHeader>> \o rows)>>
          /\ tables = <<CellTable(rows)>>
    /\ strategy = "auto"
    /\ domains = None
    /\ names = None
    /\ report = EmptyReport
    /\ tolerance = DefaultTolerance
    /\ error = "none"
    /\ pc = "input"
    /\ NoRegistry
    /\ NoWindow
    /\ NewProcess
    /\ NoConversion
SpecCells == InitCells /\ [][SegmentByScoreDomain \/ ValidateTables]_vars

----------------------------------------------------------------------------
(* MainWindow and ConversionWorker: the batch of the selected files *)

\* the window's fields as one record
Window ==
    [selected_files |-> selected_files,
     current_file_index |-> current_file_index,
     convert_enabled |-> convert_enabled,
     workers |-> workers,
     completions |-> completions,
     conversion_options |-> conversion_options,
     xlsx_check |-> xlsx_check,
     docx_check |-> docx_check,
     csv_check |-> csv_check,
     portrait_radio |-> portrait_radio,
     excel_layout_combo |-> excel_layout_combo,
     corporate_radio |-> corporate_radio,
     current_theme |-> current_theme,
     settings_changed |-> settings_changed]

WindowBecomes(w) ==
    /\ selected_files' = w.selected_files
    /\ current_file_index' = w.current_file_index
    /\ convert_enabled' = w.convert_enabled
    /\ workers' = w.workers
    /\ completions' = w.completions
    /\ conversion_options' = w.conversion_options
    /\ xlsx_check' = w.xlsx_check
    /\ docx_check' = w.docx_check
    /\ csv_check' = w.csv_check
    /\ portrait_radio' = w.portrait_radio
    /\ excel_layout_combo' = w.excel_layout_combo
    /\ corporate_radio' = w.corporate_radio
    /\ current_theme' = w.current_theme
    /\ settings_changed' = w.settings_changed

\* an ExtractionOptions object: which object it is and what it holds
OptionsObject(id, value) == [id |-> id, value |-> value]

\* ConversionWorker(controller, input_file, options), started: the k-th
\* thread the window has created; state is "running" until run() has
\* emitted its signal, then the signal that waits in the event loop
\* ("finished" with result.success, "failed" with success = False, "error"),
\* then "handled" once the window's slot has run; options is the options
\* object the worker was given
ConversionWorker(input_file, opts) ==
    [input_file |-> input_file, options |-> opts, state |-> "running"]

\* lines 308-314: the formats of the checked boxes, in the order XLSX, DOCX,
\* CSV
checked_formats(w) ==
    (IF w.xlsx_check THEN <<Plain("xlsx")>> ELSE <<>>)
    \o (IF w.docx_check THEN <<Plain("docx")>> ELSE <<>>)
    \o (IF w.csv_check THEN <<Plain("csv")>> ELSE <<>>)

\* MainWindow._get_extraction_options: the options the widgets stand for.
\* The Enum members it passes to ExtractionOptions are stored as plain
\* values (Config.use_enum_values); the fields it does not pass keep their
\* defaults
get_extraction_options(w) ==
    ExtractionOptions(Plain("hybrid"), checked_formats(w), Plain(w.excel_layout_combo),
                      Plain(IF w.portrait_radio THEN "portrait" ELSE "landscape"),
                      w.current_theme, TRUE, [num |-> 1, den |-> 100], TRUE)

\* the options object a call of _get_extraction_options creates, after the
\* one the window holds
next_options(w) ==
    OptionsObject(IF w.conversion_options.some THEN w.conversion_options.val.id + 1 ELSE 1,
                  get_extraction_options(w))

\* MainWindow._change_theme, the slot of the toggled signal of both theme
\* radio buttons
change_theme(w) ==
    [w EXCEPT !.current_theme = IF w.corporate_radio THEN "corporate" ELSE "indigenous"]

\* MainWindow._conversion_complete
conversion_complete(w) ==
    [w EXCEPT !.convert_enabled = TRUE, !.completions = w.completions + 1]

\* MainWindow._process_next_file; current_file_index counts from 0
process_next_file(w) ==
    IF w.current_file_index >= Len(w.selected_files)
    THEN conversion_complete(w)
    ELSE [w EXCEPT !.workers =
             Append(w.workers,
                    ConversionWorker(w.selected_files[w.current_file_index + 1],
                                     w.conversion_options.val))]

\* MainWindow._start_conversion; _get_extraction_options builds a new
\* options object at every call
start_conversion(w) ==
    IF w.selected_files = <<>>
    THEN w
    ELSE process_next_file([w EXCEPT !.convert_enabled = FALSE,
                                     !.conversion_options = Some(next_options(w)),
                                     !.current_file_index = 0])

\* MainWindow._on_file_complete and MainWindow._on_error, for the signal of
\* worker k: both advance the index and process the next file
on_signal(w, k) ==
    process_next_file([w EXCEPT !.workers[k].state = "handled",
                                !.current_file_index = w.current_file_index + 1])

\* the loop of MainWindow._add_files over the files the dialog returned
RECURSIVE append_new(_, _)
append_new(files, chosen) ==
    IF chosen = <<>> THEN files
    ELSE append_new(IF Head(chosen) \in Range(files) THEN files
                    ELSE Append(files, Head(chosen)),
                    Tail(chosen))

\* MainWindow._add_files; chosen is empty when the dialog is cancelled
add_files(w, chosen) ==
    [w EXCEPT !.selected_files = append_new(w.selected_files, chosen),
              !.convert_enabled = Len(append_new(w.selected_files, chosen)) > 0]

\* the files left when the rows are deleted, rows counted from 1
RECURSIVE without_rows(_, _, _)
without_rows(files, rows, i) ==
    IF i > Len(files) THEN <<>>
    ELSE (IF i \in rows THEN <<>> ELSE <<files[i]>>) \o without_rows(files, rows, i + 1)

\* MainWindow._remove_selected_files; rows are the rows selected in the list
remove_selected_files(w, rows) ==
    [w EXCEPT !.selected_files = without_rows(w.selected_files, rows, 1),
              !.convert_enabled = Len(without_rows(w.selected_files, rows, 1)) > 0]

\* MainWindow._clear_files
clear_files(w) ==
    [w EXCEPT !.selected_files = <<>>, !.convert_enabled = FALSE]

----------------------------------------------------------------------------
(* The window's user and its worker threads *)

\* the most threads the user's clicks on Convert are followed up to
MaxWorkers == 2

\* the most changes of the format, orientation, layout and theme widgets the
\* user's clicks are followed up to
MaxSettings == 1

\* the files the dialog offers
FileNames == {"a.pdf", "b.pdf"}

\* what the files hold: a table of scores and a table of names
ScoreFile == Document(cPdf, << <<<<wScoreHeader, wScore0>>>> >>)
RosterFile == Document(cPdf, << <<<<wHeader, wAnn>>>> >>)

file_content(input_file) == IF input_file = "a.pdf" THEN ScoreFile ELSE RosterFile

\* what QFileDialog.selectedFiles can return; empty when cancelled
DialogChoices == SeqsUpTo(FileNames, Cardinality(FileNames))

\* the list widget selects one row at a time
RowChoices == {{}} \cup {{i} : i \in 1..Len(selected_files)}

outside_window ==
    <<fragments, strategy, domains, tables, names, report, tolerance, error, pc,
      registry, process, conversion>>

\* the Add Files button
AddFiles ==
    /\ \E chosen \in DialogChoices : WindowBecomes(add_files(Window, chosen))
    /\ UNCHANGED outside_window

\* the Remove Selected button
RemoveSelectedFiles ==
    /\ \E rows \in RowChoices : WindowBecomes(remove_selected_files(Window, rows))
    /\ UNCHANGED outside_window

\* the Clear All button
ClearFiles ==
    /\ WindowBecomes(clear_files(Window))
    /\ UNCHANGED outside_window

\* the items of excel_layout_combo
ExcelLayoutModes == {"separate_sheets", "single_sheet_vertical", "single_sheet_horizontal"}

\* whether the user's click, which brings the widgets to those of w, is
\* followed: a click that changes no widget always is
followed_click(w) == w = Window \/ settings_changed < MaxSettings

\* the window once the user has brought the widgets to those of w
with_settings(w) ==
    IF w = Window THEN w ELSE [w EXCEPT !.settings_changed = settings_changed + 1]

\* a click on one of the three format checkboxes
ToggleFormat ==
    /\ \E box \in {"xlsx_check", "docx_check", "csv_check"} :
           /\ followed_click([Window EXCEPT ![box] = ~@])
           /\ WindowBecomes(with_settings([Window EXCEPT ![box] = ~@]))
    /\ UNCHANGED outside_window

\* a click on Portrait or on Landscape
ChooseOrientation ==
    /\ \E portrait \in BOOLEAN :
           /\ followed_click([Window EXCEPT !.portrait_radio = portrait])
           /\ WindowBecomes(with_settings([Window EXCEPT !.portrait_radio = portrait]))
    /\ UNCHANGED outside_window

\* an item of the combo box chosen
ChooseExcelLayout ==
    /\ \E layout \in ExcelLayoutModes :
           /\ followed_click([Window EXCEPT !.excel_layout_combo = layout])
           /\ WindowBecomes(with_settings([Window EXCEPT !.excel_layout_combo = layout]))
    /\ UNCHANGED outside_window

\* the window after a click that leaves Corporate Theme checked or not: the
\* radio buttons emit toggled when their state changes, and _change_theme
\* runs
theme_clicked(w, corporate) ==
    IF corporate = w.corporate_radio THEN w
    ELSE change_theme([w EXCEPT !.corporate_radio = corporate])

\* a click on Corporate Theme or on Indigenous Theme
ChooseTheme ==
    /\ \E corporate \in BOOLEAN :
           /\ followed_click(theme_clicked(Window, corporate))
           /\ WindowBecomes(with_settings(theme_clicked(Window, corporate)))
    /\ UNCHANGED outside_window

\* the Convert Documents button, which can be clicked while enabled
StartConversion ==
    /\ convert_enabled
    /\ Len(workers) < MaxWorkers
    /\ WindowBecomes(start_conversion(Window))
    /\ UNCHANGED outside_window

\* line 60 returned: controller.convert_document(input_file, options) has
\* run on the controller's registry and audit log, and the finished signal
\* carries its result
RunReturns(k) ==
    /\ \E outcome \in convert_document(file_content(workers[k].input_file),
                                        workers[k].options.value, plugins,
                                        NewCall(audit_log)) :
          /\ fragments' = outcome.fragments
          /\ plugin_result' = outcome.plugin_result
          /\ page_tables' = outcome.page_tables
          /\ strategy' = outcome.strategy
          /\ domains' = outcome.domains
          /\ tables' = outcome.tables
          /\ tolerance' = outcome.tolerance
          /\ report' = outcome.report
          /\ error' = outcome.error
          /\ result' = outcome.result
          /\ audit_log' = outcome.audit_log
          /\ workers' = [workers EXCEPT ![k].state =
                             IF outcome.result.val.success THEN "finished" ELSE "failed"]
    /\ document' = file_content(workers[k].input_file)
    /\ options' = workers[k].options.value
    /\ pc' = "convert_document"
    /\ UNCHANGED <<names, plugins, min_confidence, process>>

\* line 60 raised: an exception left convert_document, from outside its
\* try statement or from its except clause, and the error signal carries it
RunRaises(k) ==
    /\ workers' = [workers EXCEPT ![k].state = "error"]
    /\ UNCHANGED outside_window

\* ConversionWorker.run of the k-th thread, up to the signal it emits
WorkerRun(k) ==
    /\ workers[k].state = "running"
    /\ (RunRaises(k) \/ RunReturns(k))
    /\ UNCHANGED <<selected_files, current_file_index, convert_enabled, completions,
                   conversion_options, xlsx_check, docx_check, csv_check, portrait_radio,
                   excel_layout_combo, corporate_radio, current_theme, settings_changed>>

\* the slot of the finished signal of the k-th thread
OnFileComplete(k) ==
    /\ workers[k].state \in {"finished", "failed"}
    /\ WindowBecomes(on_signal(Window, k))
    /\ UNCHANGED outside_window

\* the slot of the error signal of the k-th thread
OnError(k) ==
    /\ workers[k].state = "error"
    /\ WindowBecomes(on_signal(Window, k))
    /\ UNCHANGED outside_window

WorkerRuns == \E k \in 1..Len(workers) : WorkerRun(k)
FileCompletes == \E k \in 1..Len(workers) : OnFileComplete(k)
ErrorArrives == \E k \in 1..Len(workers) : OnError(k)

\* initialize_plugins: the two shipped profiles, neither of which detects
\* the files
ShippedPlugins ==
    <<WaecPlugin(Detected([num |-> 3, den |-> 10])), StaffListPlugin(Detected(Int2Num(0)))>>

\* main(): the registry with the two shipped profiles, a controller with an
\* audit directory, and the window
InitBatch ==
    /\ plugins = ShippedPlugins
    /\ min_confidence = DefaultMinConfidence
    /\ plugin_result = None
    /\ NoWindow
    /\ NewProcess
    /\ document = NoDocument
    /\ options = DefaultOptions
    /\ page_tables = <<>>
    /\ result = None
    /\ audit_log = Some(<<>>)
    /\ fragments = <<>>
    /\ strategy = "auto"
    /\ domains = None
    /\ tables = <<>>
    /\ names = None
    /\ report = EmptyReport
    /\ tolerance = DefaultTolerance
    /\ error = "none"
    /\ pc = "input"

\* a started thread runs to its signal and the event loop delivers every
\* signal; nothing obliges the user to click
BatchFairness ==
    /\ WF_vars(WorkerRuns)
    /\ WF_vars(FileCompletes)
    /\ WF_vars(ErrorArrives)

SpecBatch ==
    /\ InitBatch
    /\ [][AddFiles \/ RemoveSelectedFiles \/ ClearFiles \/ ToggleFormat
           \/ ChooseOrientation \/ ChooseExcelLayout \/ ChooseTheme \/ StartConversion
           \/ WorkerRuns \/ FileCompletes \/ ErrorArrives]_vars
    /\ BatchFairness

\* no thread is running and no signal waits
NoWorkerPending == \A k \in 1..Len(workers) : workers[k].state = "handled"

\* a user who leaves the window alone while a batch is converted
UserWaits ==
    /\ NoWorkerPending
    /\ (AddFiles \/ RemoveSelectedFiles \/ ClearFiles \/ ToggleFormat
           \/ ChooseOrientation \/ ChooseExcelLayout \/ ChooseTheme \/ StartConversion)

SpecBatchAlone ==
    /\ InitBatch
    /\ [][UserWaits \/ WorkerRuns \/ FileCompletes \/ ErrorArrives]_vars
    /\ BatchFairness

----------------------------------------------------------------------------
(* Rosters with section titles *)

\* rows of one section of an enumerated roster
MaxSectionRows == 2

rTitleB == << <<"S", "e", "c", " ", "B">>, <<" ">> >>
\* one non-blank cell, which is not the first
rOrphan == << <<>>, <<"H", "R">> >>
SectionRows == {rTitle, rTitleB, rOrphan, rAnn}

\* two fragments, each a header row followed by the rows of a section
InitTitles ==
    /\ \E first \in SeqsUpTo(SectionRows, MaxSectionRows),
          second \in SeqsUpTo(SectionRows, MaxSectionRows) :
          fragments = <<Fragment(1, <<rHeader>> \o first),
                        Fragment(2, <<rHeaderVariant>> \o second)>>
    /\ Idle
SpecTitles == InitTitles /\ [][SegmentByHeaderRepetition]_vars

----------------------------------------------------------------------------
(* Calls of validate_tables on one table, for the classification *)

cFrequency == <<"F", "r", "e", "q", "u", "e", "n", "c", "y">>
cStudentMark == <<"S", "t", "u", "d", "e", "n", "t", " ", "M", "a", "r", "k">>
cMark == <<"M", "A", "R", "K">>
cPercentOfScore == <<"%", " ", "o", "f", " ", "S", "c", "o", "r", "e">>
cCumulativeFrequency == <<"C", "u", "m", "u", "l", "a", "t", "i", "v", "e", " ", "F", "r", "e", "q", "u", "e", "n", "c", "y">>
cCount == <<"N">>

\* header lists: by their keywords a distribution table, a roster, both or
\* neither; the last one has a single non-blank cell
KindHeaders ==
    {<<cScore, cPercent>>, <<cPercent, cScore>>, <<cScore, cFreq>>,
     <<cScore, cFrequency>>, <<cScore, cCumulative>>, <<cName, cDept>>,
     <<cName, cPercent>>, <<cStudentMark, cPercent>>, <<cMark, cPercentOfScore>>,
     <<cCumulativeFrequency, cPercent>>, <<cDept, cCount>>, <<cName, <<>>>>}

\* rows of two cells: numbers, a negative number, and one non-blank cell
KindRows ==
    {<< <<"1", "0">>, <<"6", "0">> >>, << <<"5", "0">>, <<"-", "4", "0">> >>, << <<"5">>, <<>> >>, << <<>>, <<"4", "0">> >>}

\* the tables of a header list and at most MaxRows rows, with and without an
\* assigned score domain, and the table without any row
KindTables ==
    UNION {TablesOver(h, TRUE, h, KindRows) : h \in KindHeaders}
    \cup UNION {{[t EXCEPT !.score_domain = Some(dLow)] :
                   t \in TablesOver(h, TRUE, h, KindRows)} : h \in KindHeaders}
    \cup {RuleTable(<<cScore, cPercent>>, TRUE, <<>>)}

InitKinds ==
    /\ fragments = <<>>
    /\ strategy = "auto"
    /\ domains = None
    /\ tables \in {<<t>> : t \in KindTables}
    /\ names = None
    /\ report = EmptyReport
    /\ tolerance = DefaultTolerance
    /\ error = "none"
    /\ pc = "input"
    /\ NoRegistry
    /\ NoWindow
    /\ NewProcess
    /\ NoConversion
SpecKinds == InitKinds /\ [][ValidateTables]_vars

----------------------------------------------------------------------------
(* Calls of validate_tables on tables that several rules report on *)

cStudentScore == <<"S", "t", "u", "d", "e", "n", "t", " ", "S", "c", "o", "r", "e">>
OrderHeader == <<cStudentScore, cPercent, cFrequency, cCumulative>>

qPlain == << <<"1", "0">>, <<"6", "0">>, <<"3">>, <<"1", "0">> >>
\* a score outside 0-19, a negative frequency, a falling cumulative value
qBad == << <<"5", "0">>, <<"3", "0">>, <<"-", "1">>, <<"5">> >>
\* one non-blank cell
qLone == << <<"5">>, <<>>, <<>>, <<>> >>
\* a row of one cell
qShort == << <<"7">> >>

\* the rows after the header of the tables
OrderBodies ==
    {<<qPlain, qBad>>, <<qBad, qBad, qLone, qShort>>, <<qLone>>}

\* each with and without a detected header, with the score domain 0-19
OrderTables ==
    {[RuleTable(OrderHeader, h, <<OrderHeader>> \o body) EXCEPT !.score_domain = Some(dLow)] :
        h \in BOOLEAN, body \in OrderBodies}

InitOrder ==
    /\ fragments = <<>>
    /\ strategy = "auto"
    /\ domains = None
    /\ tables \in SeqsUpTo(OrderTables, MaxTables)
    /\ names \in NameChoices
    /\ report = EmptyReport
    /\ tolerance = DefaultTolerance
    /\ error = "none"
    /\ pc = "input"
    /\ NoRegistry
    /\ NoWindow
    /\ NewProcess
    /\ NoConversion
SpecOrder == InitOrder /\ [][ValidateTables]_vars

----------------------------------------------------------------------------
(* Calls of the score-domain segmenter followed by the validator on the     *)
(* tables it emits                                                          *)

\* header rows: the score column first, the score column second, and a header
\* that is not the header of a distribution table
rScorePercent == <<cScore, cPercent>>
rPercentScore == <<cPercent, cScore>>
EmittedHeaders == {rScorePercent, rPercentScore, rScoreHeader}

\* rows of two numeric cells, and one whose first cell is not a number
EmittedRows ==
    {<< <<"5">>, <<"6", "0">> >>,
     << <<"1", "0">>, <<"4", "0">> >>,
     << <<"6", "0">>, <<"5">> >>,
     << <<"2", "5">>, <<"1", "0">> >>,
     << <<"n", "/", "a">>, <<"1", "5">> >>}

\* validator.validate_tables(tables) on the tables the segmenter returned
ValidateEmitted ==
    /\ pc = "segment_by_score_domain"
    /\ report' = validate_tables(tables, names, tolerance)
    /\ pc' = "validate_tables"
    /\ UNCHANGED <<fragments, strategy, domains, tables, names, tolerance, error>>
    /\ UNCHANGED <<registry, window, process, conversion>>

InitEmitted ==
    /\ \E header \in EmittedHeaders, rows \in SeqsUpTo(EmittedRows, MaxRows) :
          fragments = <<Fragment(1, <<header>> \o rows)>>
    /\ Idle
SpecEmitted == InitEmitted /\ [][SegmentByScoreDomain \/ ValidateEmitted]_vars

----------------------------------------------------------------------------
(* The exact decimal a cell of the inputs reads as, [sign] digits [. digits] *)
(* with blanks around it: what the properties compute with                   *)

IsDigits(s) == \A i \in 1..Len(s) : s[i] \in Digits

\* one value has one representation: 1.50 and 1.5 are both [num |-> 15, den |-> 10]
RECURSIVE Norm(_)
Norm(x) ==
    IF x.den > 1 /\ x.num % 10 = 0
    THEN Norm([num |-> x.num \div 10, den |-> x.den \div 10])
    ELSE x

PlainDecimal(sign, ip, fp) ==
    IF IsDigits(ip) /\ IsDigits(fp) /\ Len(ip) + Len(fp) > 0
    THEN Some(Norm([num |-> sign * (DigitsVal(ip) * Pow10(Len(fp)) + DigitsVal(fp)),
                    den |-> Pow10(Len(fp))]))
    ELSE None

PlainUnsigned(sign, body) ==
    LET dots == {i \in 1..Len(body) : body[i] = "."}
        p == IF dots = {} THEN Len(body) + 1 ELSE CHOOSE i \in dots : TRUE
    IN IF Cardinality(dots) > 1 THEN None
       ELSE PlainDecimal(sign, SubSeq(body, 1, p - 1), SubSeq(body, p + 1, Len(body)))

PlainLiteral(t) ==
    IF t # <<>> /\ t[1] \in {"+", "-"}
    THEN PlainUnsigned(IF t[1] = "-" THEN -1 ELSE 1, Tail(t))
    ELSE PlainUnsigned(1, t)

\* the reading of a cell, of a score cell (commas dropped) and of a cell of the
\* validator (commas and percent signs dropped)
Reading(s) == PlainLiteral(strip(s))
ScoreReading(s) == Reading(remove(s, ","))
CellReading(s) == Reading(remove(remove(s, ","), "%"))

\* the integer part of a decimal
Whole(x) == IF x.num >= 0 THEN x.num \div x.den ELSE -((-x.num) \div x.den)

\* the decimals of a set in ascending order
RECURSIVE Ascend(_)
Ascend(S) ==
    IF S = {} THEN <<>>
    ELSE LET m == CHOOSE x \in S : \A y \in S : NumLe(x, y)
         IN <<m>> \o Ascend(S \ {m})

----------------------------------------------------------------------------
(* Properties of segment_by_score_domain *)

Merged == merged_data(fragments)
MergedDataRows == IF Merged = <<>> THEN <<>> ELSE Tail(Merged)

Count(q, x) == Cardinality({i \in 1..Len(q) : q[i] = x})

\* the data rows of all tables, one table after the other
RECURSIVE EmittedDataRows(_)
EmittedDataRows(ts) ==
    IF ts = <<>> THEN <<>> ELSE Tail(ts[1].data) \o EmittedDataRows(Tail(ts))

\* column 0 of the row parses to a number v with min_score <= v <= max_score
Covers(d, row) ==
    /\ Len(row) >= 1
    /\ LET v == ScoreReading(row[1])
       IN v.some /\ d.min_score * v.val.den <= v.val.num
                 /\ v.val.num <= d.max_score * v.val.den

PairwiseDisjoint(ds) ==
    \A i, j \in 1..Len(ds) :
        i # j => ds[i].max_score < ds[j].min_score \/ ds[j].max_score < ds[i].min_score

CoverAll(ds, rows) ==
    \A i \in 1..Len(rows) : \E k \in 1..Len(ds) : Covers(ds[k], rows[i])

SuppliedDomains == pc = "segment_by_score_domain" /\ domains.some /\ domains.val # <<>>

\* C1: with supplied domains that are pairwise disjoint and cover the column-0
\* value of every data row, every data row of the merged concatenation is in
\* exactly one emitted table, and the tables' data rows together are the
\* merged data rows.
C1_DisjointCoverPartition ==
    (SuppliedDomains /\ PairwiseDisjoint(domains.val)
                     /\ CoverAll(domains.val, MergedDataRows))
    => /\ \A i \in 1..Len(MergedDataRows) :
             /\ Cardinality({k \in 1..Len(tables) :
                   MergedDataRows[i] \in Range(Tail(tables[k].data))}) = 1
             /\ Count(EmittedDataRows(tables), MergedDataRows[i])
                  = Count(MergedDataRows, MergedDataRows[i])
       /\ Range(EmittedDataRows(tables)) = Range(MergedDataRows)

\* the section 8 scenario: scores 0, 10, 15 in the first table and 20 in the
\* second, the rows 15 and 20 coming from the second page
C1_Witness ==
    /\ SuppliedDomains
    /\ fragments = ScoreScenario
    /\ domains = Some(<<dLow, dHigh>>)
    /\ PairwiseDisjoint(domains.val) /\ CoverAll(domains.val, MergedDataRows)
    /\ Len(tables) = 2
    /\ Tail(tables[1].data) = <<rScore0, rScore10, rScore15>>
    /\ Tail(tables[2].data) = <<rScore20>>

\* C2: with supplied domains the tables come in the order of the domains, one
\* per domain that covers at least one data row; the table of domain d is the
\* first merged row followed by exactly the data rows d covers, in merged
\* order (so a row covered by k domains is in k tables, and a domain covering
\* no row has no table).
C2_TablePerMatchingDomain ==
    (SuppliedDomains /\ Merged # <<>>)
    => LET ds == domains.val
           matching == Ascending({k \in 1..Len(ds) :
                          \E i \in 1..Len(MergedDataRows) : Covers(ds[k], MergedDataRows[i])})
       IN /\ Len(tables) = Len(matching)
          /\ \A j \in 1..Len(matching) :
                /\ j <= Len(tables)
                /\ tables[j].score_domain = Some(ds[matching[j]])
                /\ tables[j].data[1] = Merged[1]
                /\ Tail(tables[j].data)
                     = SelectSeq(MergedDataRows, LAMBDA row : Covers(ds[matching[j]], row))

\* overlapping domains 0-19 and 15-40: the row 15 is in both tables, and with
\* 20-40 first and no row at 20 or above only the second domain has a table
C2_Witness ==
    /\ SuppliedDomains
    /\ domains = Some(<<dLow, dEssay>>)
    /\ Len(tables) = 2
    /\ rScore15 \in Range(Tail(tables[1].data))
    /\ rScore15 \in Range(Tail(tables[2].data))
    /\ rScore0 \in Range(Tail(tables[1].data))

----------------------------------------------------------------------------
(* Properties of segment_by_header_repetition *)

HeaderCalled == pc = "segment_by_header_repetition"

\* a row all of whose cells are non-blank, and its form after trim and uppercase
FullRow(row) == Len(row) >= 1 /\ \A c \in 1..Len(row) : strip(row[c]) # <<>>
Normal(row) == [c \in 1..Len(row) |-> upper(strip(row[c]))]

\* the positions in m of the fully non-blank rows that occur twice
RepeatedIn(m) ==
    {i \in 1..Len(m) :
        /\ FullRow(m[i])
        /\ \E j \in 1..Len(m) :
              j # i /\ FullRow(m[j]) /\ Normal(m[j]) = Normal(m[i])}
RepeatedAt == RepeatedIn(Merged)

\* C3: on non-empty merged input in which no fully non-blank row occurs twice
\* the result is one table whose data is the merged row sequence.
C3_NoRepeatSingleTable ==
    (HeaderCalled /\ Merged # <<>> /\ RepeatedAt = {})
    => Len(tables) = 1 /\ tables[1].data = Merged

\* two non-empty fragments, rows of different kinds, nothing repeated
C3_Witness ==
    /\ HeaderCalled
    /\ RepeatedAt = {}
    /\ Len(fragments) = 2 /\ fragments[1].data # <<>> /\ fragments[2].data # <<>>
    /\ Merged = <<rTitle, rHeader, rAnn>>
    /\ Len(tables) = 1 /\ tables[1].data = Merged

\* the non-blank cells of a row
NonBlankCells(row) == {c \in 1..Len(row) : strip(row[c]) # <<>>}

\* a row of at least 2 cells with exactly one non-blank cell, in any column
OneCellRow(row) == Len(row) >= 2 /\ Cardinality(NonBlankCells(row)) = 1

\* a row of at least 2 cells of which only the first is non-blank
TitleRow(row) ==
    /\ Len(row) >= 2
    /\ strip(row[1]) # <<>>
    /\ \A c \in 2..Len(row) : strip(row[c]) = <<>>

\* the occurrences in m of the detected pattern H (the repeated row seen
\* first, normalised), in merged order
OccurrencesIn(m) ==
    LET rep == RepeatedIn(m)
        h == Normal(m[CHOOSE i \in rep : \A j \in rep : i <= j])
    IN Ascending({i \in 1..Len(m) : Len(m[i]) = Len(h) /\ Normal(m[i]) = h})

\* the positions of the ordinary rows between occurrence k and the next
\* one: the non-empty rows that are no section title, a section title being
\* a row of at least 2 cells with exactly one non-blank cell
SectionAfter(m, occ, k) ==
    Ascending({i \in 1..Len(m) :
                 /\ occ[k] < i
                 /\ k < Len(occ) => i < occ[k + 1]
                 /\ m[i] # <<>>
                 /\ ~OneCellRow(m[i])})

\* the occurrences followed by at least one ordinary row
FollowedIn(m, occ) == Ascending({k \in 1..Len(occ) : SectionAfter(m, occ, k) # <<>>})
Followed == FollowedIn(Merged, OccurrencesIn(Merged))

OnePerFollowedOccurrence ==
    LET m == Merged
        occ == OccurrencesIn(m)
        fol == FollowedIn(m, occ)
    IN /\ Len(tables) = Len(fol)
       /\ \A j \in 1..Len(fol) :
             /\ j <= Len(tables)
             /\ LET sec == SectionAfter(m, occ, fol[j])
                IN tables[j].data = <<m[occ[fol[j]]]>> \o [n \in 1..Len(sec) |-> m[sec[n]]]

\* the rows [H, title, d1, d2, H, d3]
ScenarioResult ==
    Merged = <<rHeader, rTitle, rAnn, rBob, rHeader, rEve>>
    => /\ Len(tables) = 2
\* C4 as stated: whenever a repeated header pattern H is detected there is
\* one table per occurrence of H followed by an ordinary row, holding that H
\* row and those ordinary rows.
C4_Stated ==
    (HeaderCalled /\ RepeatedAt # {}) => OnePerFollowedOccurrence /\ ScenarioResult

\* the fallback of segment_by_header_repetition: one table holding all
\* merged rows
FallbackTable == Len(tables) = 1 /\ tables[1].data = Merged

    /\ RepeatedAt # {}
    /\ Followed = <<2>>
    /\ Len(tables) = 1
    /\ tables[1].data = <<rHeaderVariant, rAnn>>
    /\ tables[1].section_title = Some(rTitle[1])

\* C5: every table segment_by_header_repetition returns is tagged
\* HEADER_REPETITION and its data is its header followed by its section rows.
C5_TaggedHeaderRepetition ==
    HeaderCalled
    => \A k \in 1..Len(tables) :
          /\ tables[k].segmentation_strategy = Some("header_repetition")
          /\ tables[k].data # <<>>
          /\ tables[k].data[1] = tables[k].schema.headers

----------------------------------------------------------------------------
(* Properties of both segmenters, the strategy detector and segment_tables *)

\* the set of pages of the fragments that hold at least one row
ContributingPages ==
    {fragments[i].page : i \in {j \in 1..Len(fragments) : fragments[j].data # <<>>}}

\* C6: for both segmenters, the source_pages of every emitted table is
\* exactly the set of pages of the fragments that contributed at least one
\* row, each page once, and the same for every table of the call.
C6_ContributingPages ==
    (pc \in {"segment_by_score_domain", "segment_by_header_repetition"})
    => \A k \in 1..Len(tables) :
          /\ Range(tables[k].source_pages) = ContributingPages
          /\ Len(tables[k].source_pages) = Cardinality(ContributingPages)
          /\ tables[k].source_pages = tables[1].source_pages

\* the fragment has rows after the first whose first-column values are at
\* least 70% numeric
SeventyPercentNumeric(f) ==
    LET rows == IF f.data = <<>> THEN <<>> ELSE Tail(f.data)
        vals == {i \in 1..Len(rows) : rows[i] # <<>>}
        numeric == {i \in vals : ScoreReading(rows[i][1]).some}
    IN vals # {} /\ 100 * Cardinality(numeric) >= 70 * Cardinality(vals)

\* C7: the detector returns SCORE_DOMAIN if and only if some fragment has at
\* least 70% numeric first-column values among its rows after the first (7 of
\* 10 counts), HEADER_REPETITION otherwise, and never AUTO.
C7_SeventyPercentThreshold ==
    pc = "detect_strategy"
    => /\ strategy \in {"score_domain", "header_repetition"}
       /\ strategy = "score_domain"
            <=> \E i \in 1..Len(fragments) : SeventyPercentNumeric(fragments[i])

\* what the segmenter of a tag may return or raise
SegmenterOf(tag) ==
    IF tag = "score_domain" THEN segment_by_score_domain(fragments, domains)
    ELSE {Returned(segment_by_header_repetition(fragments))}

\* C8: segment_tables with a tag that is no strategy raises and returns no
\* table, never falling back to a segmenter; with a recognised tag it returns
\* what the segmenter of that tag returns (for AUTO, of the detected one).
C8_UnknownStrategyRaises ==
    pc = "segment_tables"
    => /\ strategy \notin {"score_domain", "header_repetition", "auto"}
            => error = "ValueError" /\ tables = <<>>
       /\ strategy \in {"score_domain", "header_repetition"}
            => \E outcome \in SegmenterOf(strategy) :
                  error = outcome.error /\ tables = outcome.tables
       /\ strategy = "auto"
            => \E outcome \in SegmenterOf(detect_strategy(fragments)) :
                  error = outcome.error /\ tables = outcome.tables

\* an unknown tag on input a segmenter would have made tables of
C8_Witness ==
    /\ pc = "segment_tables"
    /\ strategy = "page_grid"
    /\ fragments = RosterScenario
    /\ error = "ValueError"
    /\ tables = <<>>
    /\ segment_by_header_repetition(fragments) # <<>>

----------------------------------------------------------------------------
(* Properties of the validation report *)

Last(q) == q[Len(q)]

\* C9: under any sequence of add_issue calls overall_status only escalates in
\* the order PASSED < WARNING < FAILED: FAILED stays FAILED, WARNING never
\* returns to PASSED, an issue of severity PASSED leaves the status as it is,
\* and every call appends its issue at the end of issues.
C9_StatusOnlyEscalates ==
    [][pc' = "add_issue" =>
         /\ Len(report'.issues) = Len(report.issues) + 1
         /\ SubSeq(report'.issues, 1, Len(report.issues)) = report.issues
         /\ Last(report'.issues) \in IssuePool
         /\ priority(report'.overall_status) >= priority(report.overall_status)
         /\ report.overall_status = "failed" => report'.overall_status = "failed"
         /\ report.overall_status = "warning" => report'.overall_status # "passed"
         /\ Last(report'.issues).severity = "passed"
              => report'.overall_status = report.overall_status]_vars

\* a warning and an issue of severity PASSED added after a failure
C9_Witness ==
    /\ pc = "add_issue"
    /\ Len(report.issues) = 3
    /\ report.issues[1].severity = "failed"
    /\ report.issues[2].severity = "warning"
    /\ report.issues[3].severity = "passed"
    /\ report.overall_status = "failed"

\* the worst severity of the rules on table k under its name
WorstOf(k) ==
    validate_single_table(tables[k],
                          IF names = None \/ names.val = <<>> \/ k > Len(names.val)
                          THEN <<"Table_", k>> ELSE names.val[k],
                          EmptyReport, tolerance).status

\* C10: after validate_tables(tables, names), whatever the names list (absent,
\* shorter, equal, longer), every table is counted in exactly one of
\* tables_passed, tables_with_warnings, tables_failed by its worst rule
\* severity, and tables_validated is their sum and the number of tables.
C10_EveryTableCounted ==
    pc = "validate_tables"
    => LET counted(sev) == Cardinality({k \in 1..Len(tables) : WorstOf(k) = sev})
       IN /\ report.tables_passed = counted("passed")
          /\ report.tables_with_warnings = counted("warning")
          /\ report.tables_failed = counted("failed")
          /\ report.tables_validated = Len(tables)
          /\ report.tables_validated =
               report.tables_passed + report.tables_with_warnings + report.tables_failed

----------------------------------------------------------------------------
(* Properties of the validation rules, on one table *)

\* the issues of the report that carry a message, in order
IssuesWith(message) == SelectSeq(report.issues, LAMBDA x : x.message = message)

\* the position in table.data (from 1) of the first data row
FirstDataRow(t) == IF t.schema.has_header THEN 2 ELSE 1

\* a row whose cells are all empty after trimming
EntirelyBlank(row) == \A c \in 1..Len(row) : strip(row[c]) = <<>>

\* the positions (from 1) of the data rows that are not entirely blank and
\* equal, cell by cell after trimming, an earlier data row
RepeatingRows(t) ==
    {i \in FirstDataRow(t)..Len(t.data) :
       /\ ~EntirelyBlank(t.data[i])
       /\ \E j \in FirstDataRow(t)..(i - 1) :
              /\ Len(t.data[j]) = Len(t.data[i])
              /\ \A c \in 1..Len(t.data[i]) : strip(t.data[j][c]) = strip(t.data[i][c])}

\* the least element of a non-empty set of integers
Least(S) == CHOOSE i \in S : \A j \in S : i <= j

\* C11: duplicate-row rule: when two data rows of the table (the header row
\* left out when has_header) are equal after trimming each cell and are not
\* entirely blank, the table is FAILED and exactly one duplicate-row issue is
\* added, whose row_index is the index in table.data of the earliest row that
\* repeats a previous row; repeated blank rows raise no issue, and a table
\* without such a repeat gets no duplicate-row issue.
C11_DuplicateRowRule ==
    pc = "validate_tables" /\ Len(tables) = 1
    => IF RepeatingRows(tables[1]) # {}
       THEN /\ Len(IssuesWith("Duplicate row found")) = 1
            /\ IssuesWith("Duplicate row found")[1].severity = "failed"
            /\ IssuesWith("Duplicate row found")[1].row_index
                 = Some(Least(RepeatingRows(tables[1])) - 1)
            /\ report.tables_failed = 1
            /\ report.overall_status = "failed"
       ELSE IssuesWith("Duplicate row found") = <<>>

\* a padded copy of a row after a blank row: the issue is at index 3
C11_Witness ==
    /\ pc = "validate_tables"
    /\ tables[1].schema.has_header
    /\ tables[1].data = <<rHeader, rAnn, rBlank, rAnnPadded>>
    /\ IssuesWith("Duplicate row found")
         = <<ValidationIssue("failed", "Duplicate row found", <<"Table_", 1>>,
                             Some(3), None)>>

\* the 0-based index of the first header that contains the keyword, lowered
ColumnOf(t, keyword) ==
    Least({i \in 1..Len(t.schema.headers) :
             contains(lower(t.schema.headers[i]), keyword)}) - 1

\* the positions (from 1) of the rows after the first whose cell in column
\* col holds a number
NumericRows(t, col) ==
    {i \in 2..Len(t.data) :
       Len(t.data[i]) > col /\ CellReading(t.data[i][col + 1]).some}

\* a literal with at most one decimal digit, in tenths
Tenths(x) == x.num * (10 \div x.den)

\* the sum, in tenths, of the numbers of column col in the rows of R
RECURSIVE SumTenths(_, _, _)
SumTenths(t, col, R) ==
    IF R = {} THEN 0
    ELSE Tenths(CellReading(t.data[Least(R)][col + 1]).val)
         + SumTenths(t, col, R \ {Least(R)})

\* |v|
Magnitude(v) == IF v < 0 THEN -v ELSE v

\* C12: percent rule on a distribution table whose percent column holds a
\* number: a FAILED issue is raised if and only if |sum - 100| is strictly
\* greater than tolerance * 100, so that with tolerance 0.01 a column that
\* sums to 99 or to 101 passes.
C12_PercentWithinTolerance ==
    pc = "validate_tables" /\ Len(tables) = 1
      /\ tables[1].schema.headers = <<cScore, cPercent>>
      /\ NumericRows(tables[1], 1) # {}
    => (IssuesWith("Percent column does not sum to 100.00") # <<>>
          <=> Magnitude(SumTenths(tables[1], 1, NumericRows(tables[1], 1)) - 1000)
                * tolerance.den > tolerance.num * 1000)

\* the number, in tenths, of the cell of column col in the row at position i
TenthsAt(t, col, i) == Tenths(CellReading(t.data[i][col + 1]).val)

\* the positions (from 1) of the rows whose number in column col is strictly
\* less than the number of the nearest earlier row that has one
DecreasingRows(t, col) ==
    {i \in NumericRows(t, col) :
       \E j \in NumericRows(t, col) :
          /\ j < i
          /\ \A k \in NumericRows(t, col) : k < i => k <= j
          /\ TenthsAt(t, col, i) < TenthsAt(t, col, j)}

\* C13: cumulative rule on a distribution table with a cumulative column: a
\* FAILED issue is raised at row i exactly when the number at row i is
\* strictly less than the nearest number in an earlier data row; cells
\* without a number are skipped and do not reset the comparison, and equal
\* values pass.
C13_CumulativeRule ==
    pc = "validate_tables" /\ Len(tables) = 1
      /\ tables[1].schema.headers = <<cScore, cCumulative>>
    => /\ {x.row_index : x \in Range(IssuesWith("Cumulative frequency not monotonic"))}
            = {Some(i - 1) : i \in DecreasingRows(tables[1], 1)}
       /\ Len(IssuesWith("Cumulative frequency not monotonic"))
            = Cardinality(DecreasingRows(tables[1], 1))
       /\ \A x \in Range(IssuesWith("Cumulative frequency not monotonic")) :
              x.severity = "failed"
       /\ DecreasingRows(tables[1], 1) # {}
            => report.tables_failed = 1 /\ report.overall_status = "failed"

\* the column 10, 20, 15: one issue, at the row that holds 15
C13_Witness ==
    /\ pc = "validate_tables"
    /\ tables[1].data = <<<<cScore, cCumulative>>,
                          << <<"0">>, <<"1", "0">> >>,
                          << <<"0">>, <<"2", "0">> >>,
                          << <<"0">>, <<"1", "5">> >> >>
    /\ IssuesWith("Cumulative frequency not monotonic")
         = <<ValidationIssue("failed", "Cumulative frequency not monotonic",
                             <<"Table_", 1>>, Some(3), Some(cCumulative))>>

\* the positions (from 1) of the rows of table.data whose cell count differs
\* from schema.column_count
MismatchedRows(t) == {i \in 1..Len(t.data) : Len(t.data[i]) # t.schema.column_count}

\* C14: column-consistency rule: for a non-empty table exactly one WARNING
\* issue is added for each row of table.data, the header row included, whose
\* cell count differs from schema.column_count, with row_index that row's
\* index and in row order; the rule does not stop at the first mismatch and
\* never makes the table FAILED.
C14_ColumnConsistencyRule ==
    pc = "validate_tables" /\ Len(tables) = 1 /\ tables[1].data # <<>>
    => /\ Len(IssuesWith("Inconsistent column count"))
            = Cardinality(MismatchedRows(tables[1]))
       /\ \A k \in 1..Len(IssuesWith("Inconsistent column count")) :
              /\ IssuesWith("Inconsistent column count")[k].severity = "warning"
              /\ IssuesWith("Inconsistent column count")[k].row_index.some
              /\ IssuesWith("Inconsistent column count")[k].row_index.val + 1
                   \in MismatchedRows(tables[1])
              /\ \A j \in 1..(k - 1) :
                     IssuesWith("Inconsistent column count")[j].row_index.val
                       < IssuesWith("Inconsistent column count")[k].row_index.val
       /\ (\A x \in Range(report.issues) : x.message = "Inconsistent column count")
            => /\ report.overall_status
                    = (IF MismatchedRows(tables[1]) = {} THEN "passed" ELSE "warning")
               /\ report.tables_failed = 0

\* a table of two columns with a row of one cell and a row of three cells
C14_Witness ==
    /\ pc = "validate_tables"
    /\ tables[1].schema.column_count = 2
    /\ tables[1].data = <<rHeader, rOneCell, rAnn, rThreeCells>>
    /\ IssuesWith("Inconsistent column count")
         = <<ValidationIssue("warning", "Inconsistent column count", <<"Table_", 1>>,
                             Some(1), None),
             ValidationIssue("warning", "Inconsistent column count", <<"Table_", 1>>,
                             Some(3), None)>>
    /\ report.overall_status = "warning"

----------------------------------------------------------------------------
(* Properties of PluginRegistry.detect_plugin *)

\* the positions of the registered profiles whose detect returned a
\* confidence that meets min_confidence
Eligible ==
    {k \in 1..Len(plugins) :
       /\ ~plugins[k].detect.raises
       /\ NumLe(min_confidence, plugins[k].detect.confidence)}

\* the first-registered of the eligible profiles of highest confidence
FirstBest ==
    Least({k \in Eligible :
             \A j \in Eligible :
                NumLe(plugins[j].detect.confidence, plugins[k].detect.confidence)})

\* C15: detect_plugin returns the registered profile of highest confidence
\* among those whose detect succeeded with a confidence of at least
\* min_confidence, the first-registered one when several share it, and None
\* exactly when no profile meets the threshold; a profile whose detect raises
\* is skipped and the later ones are still evaluated.
C15_HighestConfidenceFirstRegistered ==
    pc = "detect_plugin"
    => IF Eligible = {} THEN plugin_result = None
       ELSE /\ plugin_result.some
            /\ plugin_result.val.plugin = FirstBest
            /\ plugin_result.val.result
                 = PluginDetectionResult(plugins[FirstBest].plugin_id,
                                         plugins[FirstBest].detect.confidence)

\* C15 for a positive threshold
C15_PositiveThreshold ==
    NumLt(Int2Num(0), min_confidence) => C15_HighestConfidenceFirstRegistered

\* a profile that raises, then two of confidence 0.9: the first of them wins
C15_Witness ==
    /\ pc = "detect_plugin"
    /\ min_confidence = DefaultMinConfidence
    /\ Len(plugins) = 3
    /\ plugins[1].detect.raises
    /\ plugins[2] = StaffListPlugin(Detected([num |-> 9, den |-> 10]))
    /\ plugins[3] = WaecPlugin(Detected([num |-> 9, den |-> 10]))
    /\ plugin_result.some /\ plugin_result.val.plugin = 2

----------------------------------------------------------------------------
(* Properties of convert_document *)

\* C16: in convert_document, when a profile is selected the segmenter is
\* called with that profile's strategy and score domains, whatever the
\* strategy detector would choose; when no profile is selected it is called
\* with the strategy detector's result and no score domains.
C16_ProfileOverridesDetector ==
    pc = "convert_document" /\ extract(document).error = "none"
    => /\ fragments = extract(document).tables
       /\ IF plugin_result.some
          THEN /\ strategy = plugins[plugin_result.val.plugin].strategy
               /\ domains = plugins[plugin_result.val.plugin].score_domains
          ELSE /\ strategy = detect_strategy(fragments)
               /\ domains = None
       /\ \E outcome \in segment_tables(fragments, strategy, domains) :
             IF outcome.error = "none" THEN tables = outcome.tables
             ELSE error = outcome.error /\ tables = <<>>

\* the staff-list profile selected on a document for which the detector
\* chooses score_domain
C16_Witness ==
    /\ pc = "convert_document"
    /\ document = ScoreDocument
    /\ detect_strategy(fragments) = "score_domain"
    /\ plugin_result.some
    /\ plugins[plugin_result.val.plugin].plugin_id = "international_staff_list"
    /\ strategy = "header_repetition"
    /\ domains = None
    /\ tables # <<>>

----------------------------------------------------------------------------
(* Properties of repeated runs *)

\* C17: determinism: a run of segmentation followed by validation on the
\* same fragments, in the same order, with the same strategy, domains and
\* tolerance gives the same logical tables in the same order and a report
\* with the same overall_status, the same issues in the same order and the
\* same counters as the run before it, whatever the hash seed and the time.
C17_RunsAgree ==
    [][pc = "run" /\ pc' = "run"
         => /\ fragments' = fragments
            /\ tables' = tables
            /\ error' = error
            /\ report'.overall_status = report.overall_status
            /\ report'.issues = report.issues
            /\ report'.tables_validated = report.tables_validated
            /\ report'.tables_passed = report.tables_passed
            /\ report'.tables_with_warnings = report.tables_with_warnings
            /\ report'.tables_failed = report.tables_failed]_vars

\* no cell of column 0 after a fragment's first row reads as nan
NoNaNScore ==
    \A i \in 1..Len(fragments) : \A j \in 2..Len(fragments[i].data) :
        fragments[i].data[j] # <<>>
        => LET score_num == Segmenter_extract_number(fragments[i].data[j][1])
           IN ~(score_num.some /\ IsNaN(score_num.val))

\* the runs agree on every document whose score column holds no nan, and on
\* the result and the strategy too
C17_RunsAgreeWithoutNaN ==
    [][pc = "run" /\ pc' = "run" /\ NoNaNScore
         => /\ fragments' = fragments
            /\ strategy' = strategy
            /\ domains' = domains
            /\ page_tables' = page_tables
            /\ tables' = tables
            /\ error' = error
            /\ result' = result
            /\ report'.overall_status = report.overall_status
            /\ report'.issues = report.issues
            /\ report'.tables_validated = report.tables_validated
            /\ report'.tables_passed = report.tables_passed
            /\ report'.tables_with_warnings = report.tables_with_warnings
            /\ report'.tables_failed = report.tables_failed]_vars

\* no run of the document with the nan raises after a run of it that
\* returned a table
C17_NaNRunsNeverDiffer ==
    [][~(/\ pc = "run" /\ pc' = "run" /\ document = NaNDocument
         /\ plugins = <<>> /\ options = DefaultOptions
         /\ strategy = "score_domain" /\ domains = None
         /\ error = "none" /\ Len(tables) = 1 /\ result.val.success
         /\ report.overall_status = "passed"
         /\ error' = "ValueError" /\ tables' = <<>> /\ ~result'.val.success
         /\ report'.overall_status = "failed")]_vars

\* the reports of two runs are equal field by field, timestamp included
C17_SameTimestamp ==
    [][pc = "run" /\ pc' = "run" => report' = report]_vars

\* a third run, under the other hash seed, of a document with two repeated
\* header rows: two page tables and two logical tables validated
C17_Witness ==
    /\ pc = "run"
    /\ process = [hash_seed |-> 1, now |-> 3]
    /\ document = TwoPatternsDocument
    /\ options = DefaultOptions
    /\ strategy = "header_repetition"
    /\ Len(tables) = 2
    /\ report.tables_validated = 4
    /\ report.timestamp = 3
    /\ result.val.success

----------------------------------------------------------------------------
(* Properties of empty and unparseable input *)

\* no fragment holds a row
EmptyInput == \A i \in 1..Len(fragments) : fragments[i].data = <<>>

\* C19: empty input, that is an empty fragment list or fragments that all
\* have an empty row set, gives an empty result list and no error from both
\* segmenters, with score domains supplied or absent.
C19_EmptyInputEmptyResult ==
    (pc \in {"segment_by_score_domain", "segment_by_header_repetition"} /\ EmptyInput)
    => tables = <<>> /\ error = "none"

\* two fragments without rows segmented by score domain without domains
C19_Witness ==
    /\ pc = "segment_by_score_domain"
    /\ Len(fragments) = 2
    /\ EmptyInput
    /\ domains = None
    /\ tables = <<>>

\* the positions (from 1) of the rows after the first whose cell in column
\* col is a number
PresentRows(t, col) ==
    {i \in 2..Len(t.data) :
       Len(t.data[i]) > col /\ t.data[i][col + 1] \notin UnparseableCells}

\* the integer in the cell of column col of the row at position i
IntegerAt(t, col, i) == Whole(Reading(t.data[i][col + 1]).val)

\* the sum of the integers of column col in the rows of R
RECURSIVE SumIntegers(_, _, _)
SumIntegers(t, col, R) ==
    IF R = {} THEN 0
    ELSE IntegerAt(t, col, Least(R)) + SumIntegers(t, col, R \ {Least(R)})

\* the rows of the issues of the report that carry a message
RowsWith(message) == {x.row_index : x \in Range(IssuesWith(message))}

\* the rows whose number in column col is below the number of the nearest
\* earlier row that has one
FallingRows(t, col) ==
    {i \in PresentRows(t, col) :
       \E j \in PresentRows(t, col) :
          /\ j < i
          /\ \A k \in PresentRows(t, col) : k < i => k <= j
          /\ IntegerAt(t, col, i) < IntegerAt(t, col, j)}

\* C20: a cell that does not parse as a number never causes an error and is
\* treated as absent: the score-domain segmenter puts its row in no table; the
\* validator leaves it out of the percent sum, never reports it as a negative
\* frequency or an out-of-domain score, and skips it in the cumulative
\* comparison; validate_tables returns a report that counts the table.
C20_UnparseableIsAbsent ==
    /\ pc = "segment_by_score_domain"
       => /\ error = "none"
          /\ \A k \in 1..Len(tables) :
                \A i \in 2..Len(tables[k].data) :
                   tables[k].data[i][1] \notin UnparseableCells
    /\ pc = "validate_tables"
       => /\ error = "none"
          /\ report.tables_validated = 1
          /\ report.tables_passed + report.tables_with_warnings
               + report.tables_failed = 1
          /\ (IssuesWith("Percent column does not sum to 100.00") # <<>>
                <=> /\ PresentRows(tables[1], 1) # {}
                    /\ Magnitude(SumIntegers(tables[1], 1, PresentRows(tables[1], 1))
                                  - 100) > 1)
          /\ RowsWith("Negative frequency found")
               = {Some(i - 1) : i \in {j \in PresentRows(tables[1], 2) :
                                         IntegerAt(tables[1], 2, j) < 0}}
          /\ RowsWith("Cumulative frequency not monotonic")
               = {Some(i - 1) : i \in FallingRows(tables[1], 3)}
          /\ RowsWith("Score outside domain range")
               = {Some(i - 1) : i \in {j \in PresentRows(tables[1], 0) :
                                         \/ IntegerAt(tables[1], 0, j) < dLow.min_score
                                         \/ IntegerAt(tables[1], 0, j) > dLow.max_score}}

\* a percent column 60, 40, n/a that sums to 100, and a cumulative column
\* 10, 20, empty: the table has no percent and no cumulative issue
C20_Witness ==
    /\ pc = "validate_tables"
    /\ Len(tables[1].data) = 4
    /\ tables[1].data[2][2] = <<"6", "0">>
    /\ tables[1].data[3][2] = <<"4", "0">>
    /\ tables[1].data[4][2] = <<"n", "/", "a">>
    /\ tables[1].data[4][4] = <<>>
    /\ IssuesWith("Percent column does not sum to 100.00") = <<>>
    /\ IssuesWith("Cumulative frequency not monotonic") = <<>>
    /\ RowsWith("Negative frequency found") = {Some(2)}

----------------------------------------------------------------------------
(* Properties of the window's batch conversion *)

\* the threads still inside ConversionWorker.run
RunningWorkers == {k \in 1..Len(workers) : workers[k].state = "running"}

\* the threads the window started for the file under the options object
WorkersFor(ws, file, opts) ==
    {k \in 1..Len(ws) : ws[k].input_file = file /\ ws[k].options = opts}

\* the slot of a signal of thread k runs in this step
SignalHandled(k) == workers[k].state # "handled" /\ workers'[k].state = "handled"

\* at most one conversion worker runs at any time
OneWorkerAtATime == [](Cardinality(RunningWorkers) <= 1)

\* a worker is started only when every earlier worker has reported and its
\* report has been handled
StartedAfterReport ==
    [][Len(workers') > Len(workers)
          => \A k \in 1..Len(workers) : workers'[k].state = "handled"]_vars

\* the report of a failed conversion starts the worker of the next document,
\* or completes the batch after the last document
FailureGoesOn ==
    [][\A k \in 1..Len(workers) :
          workers[k].state \in {"failed", "error"} /\ SignalHandled(k)
             => IF current_file_index + 1 < Len(selected_files)
                THEN /\ Len(workers') = Len(workers) + 1
                     /\ workers'[Len(workers')].input_file
                            = selected_files[current_file_index + 2]
                     /\ workers'[Len(workers')].state = "running"
                ELSE completions' = completions + 1]_vars

\* when the batch completes, each selected document has been converted
\* exactly once under the options of the batch
ConvertedOnce ==
    [][completions' = completions + 1
          => \A i \in 1..Len(selected_files) :
                Cardinality(WorkersFor(workers', selected_files[i],
                                       conversion_options.val)) = 1]_vars

\* a batch with a worker outstanding reaches the completed state
BatchCompletes == ~NoWorkerPending ~> (NoWorkerPending /\ convert_enabled)

\* C18: in a batch conversion of the selected documents at most one worker
\* runs at any time, the worker of the next document is started only after
\* the previous document has reported completion or error, a failed
\* conversion still leads to the next document being converted, each
\* document is converted exactly once, and the batch eventually completes
C18_BatchOneAtATime ==
    /\ OneWorkerAtATime
    /\ StartedAfterReport
    /\ FailureGoesOn
    /\ ConvertedOnce
    /\ BatchCompletes

\* two workers are running at once: the second Convert click came while the
\* first document of the batch was still being converted
C18_Witness ==
    /\ Cardinality(RunningWorkers) = 2
    /\ \E j \in RunningWorkers, k \in RunningWorkers :
          j < k /\ workers[j].input_file = workers[k].input_file

----------------------------------------------------------------------------
(* Properties of the auto-detected score domains *)

\* segment_by_score_domain has run without score_domains
AutoDetected == pc = "segment_by_score_domain" /\ domains = None

\* the data rows whose column 0 parses as a number, by position
NumericDataRows ==
    {i \in 1..Len(MergedDataRows) :
        /\ MergedDataRows[i] # <<>>
        /\ ScoreReading(MergedDataRows[i][1]).some}

\* their values, deduplicated and sorted
MergedScores ==
    Ascend({ScoreReading(MergedDataRows[i][1]).val : i \in NumericDataRows})

\* b - a is at most the gap threshold
CloseBy(a, b) == b.num * a.den - a.num * b.den <= GapThreshold * a.den * b.den

\* the bounds <<smallest, largest>> of the maximal runs of s in which
\* consecutive values are close by
MaximalRuns(s) ==
    {<<s[p[1]], s[p[2]]>> : p \in
        {p \in (1..Len(s)) \X (1..Len(s)) :
            /\ p[1] <= p[2]
            /\ \A k \in p[1]..(p[2] - 1) : CloseBy(s[k], s[k + 1])
            /\ p[1] = 1 \/ ~CloseBy(s[p[1] - 1], s[p[1]])
            /\ p[2] = Len(s) \/ ~CloseBy(s[p[2]], s[p[2] + 1])}}

\* the bounds of the domains a call of _detect_score_domains returns
DetectedBounds(detected) ==
    {<<Int2Num(d.min_score), Int2Num(d.max_score)>> : d \in Range(detected)}

\* C21: with score_domains absent, the detected domains are exactly the
\* maximal runs, with gaps of at most 5, of the deduplicated sorted numeric
\* column-0 values of all rows after the first merged row, each domain
\* running from the smallest to the largest value of its run
C21_DomainsAreMaximalRuns ==
    AutoDetected =>
        \A detected \in detect_score_domains(fragments) :
           /\ detected.error = "none"
           /\ DetectedBounds(detected.domains) = MaximalRuns(MergedScores)
           /\ Len(detected.domains) = Cardinality(MaximalRuns(MergedScores))

\* a later fragment starts with a numeric row and the call has been made
C21_Witness ==
    /\ AutoDetected
    /\ Len(fragments) = 2
    /\ Len(fragments[1].data) >= 2
    /\ fragments[2].data # <<>>
    /\ ScoreReading(fragments[2].data[1][1]).some

\* the emitted tables that hold the row among their data rows
TablesHolding(row) ==
    {t \in 1..Len(tables) : \E p \in 2..Len(tables[t].data) : tables[t].data[p] = row}

\* C28: with score_domains absent, every data row of the merged
\* concatenation whose column 0 parses as a number, the first row of a later
\* fragment included, appears in exactly one emitted table
C28_NoNumericRowLost ==
    AutoDetected =>
        \A i \in NumericDataRows : Cardinality(TablesHolding(MergedDataRows[i])) = 1

\* the call has been made on two fragments, the second starting with a
\* numeric row, and it has emitted a table
C28_Witness ==
    /\ C21_Witness
    /\ tables # <<>>

----------------------------------------------------------------------------
(* Properties of the section titles of segment_by_header_repetition *)

\* the value of the only non-blank cell of such a row
OnlyCell(row) == row[CHOOSE c \in NonBlankCells(row) : TRUE]

\* the positions after occurrence k of the header and before the next one
Between(m, occ, k) ==
    {i \in 1..Len(m) : occ[k] < i /\ (k < Len(occ) => i < occ[k + 1])}

\* the section of occurrence k when the rows at the positions in titles are
\* section titles: every other non-empty row, in merged order
SectionOf(m, occ, k, titles) ==
    Ascending({i \in Between(m, occ, k) : m[i] # <<>> /\ i \notin titles})

\* the last title row after occurrence k, if there is one
LastTitle(m, occ, k, titles) ==
    LET here == Between(m, occ, k) \cap titles
    IN IF here = {} THEN None
       ELSE Some(CHOOSE i \in here : \A j \in here : j <= i)

\* the tables are those of a walk in which exactly the rows at the positions
\* in titles are section titles: a title row is in no section and sets the
\* pending title to the cell value(i), the rows before and after it stay in
\* the section of the same header, and a table is emitted for every
\* occurrence of the header with a non-empty section
WalkWithTitles(m, titles, value(_)) ==
    LET occ == OccurrencesIn(m)
        fol == Ascending({k \in 1..Len(occ) : SectionOf(m, occ, k, titles) # <<>>})
    IN fol # <<>> =>
       /\ Len(tables) = Len(fol)
       /\ \A j \in 1..Len(fol) :
             /\ j <= Len(tables)
             /\ LET sec == SectionOf(m, occ, fol[j], titles)
                    last == LastTitle(m, occ, fol[j], titles)
                IN /\ tables[j].data
                         = <<m[occ[fol[j]]]>> \o [n \in 1..Len(sec) |-> m[sec[n]]]
                   /\ tables[j].section_title
                         = IF last.some THEN Some(value(last.val)) ELSE None

\* the positions of the merged rows with exactly one non-blank cell
OneCellRows == {i \in 1..Len(Merged) : OneCellRow(Merged[i])}
\* the positions of the merged rows whose only non-blank cell is the first
FirstCellRows == {i \in 1..Len(Merged) : TitleRow(Merged[i])}

\* C22 as stated: a row that is not the header pattern, has at least 2 cells
\* and exactly one non-blank cell, in any column, is a section title: it sets
\* the pending section title to that cell's value, is not appended to the
\* current section, and does not flush or reset the header or the section
C22_Stated ==
    (HeaderCalled /\ RepeatedAt # {})
    => WalkWithTitles(Merged, OneCellRows, LAMBDA i : OnlyCell(Merged[i]))

\* what the walk does instead: the section titles are the rows of at least 2
\* cells of which only the first is non-blank, the title is the value of
\* the first cell, and a row whose only non-blank cell is in another column
\* is kept as an ordinary data row
FirstCellOnlyTitles ==
    (HeaderCalled /\ RepeatedAt # {})
    => WalkWithTitles(Merged, FirstCellRows, LAMBDA i : Merged[i][1])

\* a section of a row whose only non-blank cell is the second, and a data
\* row: the walk has kept both rows in the table and has set no title
C22_Witness ==
    /\ HeaderCalled
    /\ fragments[1].data = <<rHeader, rOrphan, rAnn>>
    /\ fragments[2].data = <<rHeaderVariant, rAnn>>
    /\ OneCellRow(rOrphan)
    /\ Len(tables) = 2
    /\ tables[1].data = <<rHeader, rOrphan, rAnn>>
    /\ tables[1].section_title = None

\* the header occurrences with a non-empty section, the rows whose only
\* non-blank cell is the first being titles
TitledSections ==
    Ascending({k \in 1..Len(OccurrencesIn(Merged)) :
                 SectionOf(Merged, OccurrencesIn(Merged), k, FirstCellRows) # <<>>})

\* the positions of the data rows of emitted table j, and of the title rows
\* of its section that carry the title T
DataRowsOf(j) == SectionOf(Merged, OccurrencesIn(Merged), TitledSections[j], FirstCellRows)
TitleRowsOf(j, T) ==
    {i \in Between(Merged, OccurrencesIn(Merged), TitledSections[j]) \cap FirstCellRows :
        Merged[i][1] = T}

\* C23: a section title labels only rows that follow it: in every emitted
\* table that carries section_title T, every data row of the table comes
\* after the title row T in the merged row order
C23_TitleBeforeItsRows ==
    (HeaderCalled /\ RepeatedAt # {} /\ TitledSections # <<>>)
    => \A j \in 1..Len(tables) :
          (j <= Len(TitledSections) /\ tables[j].section_title.some)
          => \E t \in TitleRowsOf(j, tables[j].section_title.val) :
                \A n \in 1..Len(DataRowsOf(j)) : t < DataRowsOf(j)[n]

\* a table carries the title of a row that comes after one of its data rows
C23_Witness ==
    /\ HeaderCalled
    /\ fragments[1].data = <<rHeader, rAnn, rTitle>>
    /\ tables # <<>>
    /\ tables[1].data = <<rHeader, rAnn>>
    /\ tables[1].section_title = Some(rTitle[1])

----------------------------------------------------------------------------
(* Properties of the classification and of the rules it gates *)

\* one table has been validated
Validated == pc = "validate_tables" /\ Len(tables) = 1

\* the keyword occurs in a header of the table, letter case aside
InHeaders(t, keyword) ==
    \E i \in 1..Len(t.schema.headers) : contains(lower(t.schema.headers[i]), keyword)

RosterKeywords ==
    {<<"n", "a", "m", "e">>, <<"p", "o", "s", "i", "t", "i", "o", "n">>,
     <<"d", "e", "p", "a", "r", "t", "m", "e", "n", "t">>, <<"s", "t", "a", "f", "f">>,
     <<"s", "t", "u", "d", "e", "n", "t">>, <<"e", "m", "p", "l", "o", "y", "e", "e">>}

\* a non-empty table with a roster keyword in its header list
RosterKind(t) == t.data # <<>> /\ \E k \in RosterKeywords : InHeaders(t, k)

\* a row with exactly one non-blank cell
OneCell(row) == Cardinality(NonBlankCells(row)) = 1

\* the row indices (from 0) i >= 1 such that row i and row i + 1 both have
\* exactly one non-blank cell
OrphanRows(t) ==
    {i \in 1..(Len(t.data) - 2) : OneCell(t.data[i + 1]) /\ OneCell(t.data[i + 2])}

\* C27: roster orphan rule: on a table classified as roster a WARNING is
\* added at row index i exactly when i >= 1, row i has exactly one non-blank
\* cell and row i + 1 exists and has exactly one non-blank cell; an isolated
\* one-cell row and a one-cell row at index 0 raise no warning
C27_OrphanRule ==
    (Validated /\ RosterKind(tables[1]))
    => /\ RowsWith("Possible orphan row detected")
            = {Some(i) : i \in OrphanRows(tables[1])}
       /\ Len(IssuesWith("Possible orphan row detected"))
            = Cardinality(OrphanRows(tables[1]))
       /\ \A x \in Range(IssuesWith("Possible orphan row detected")) :
              x.severity = "warning"

\* a one-cell header row, two one-cell rows and a full row: one warning, at
\* index 1
C27_Witness ==
    /\ Validated
    /\ RosterKind(tables[1])
    /\ Len(tables[1].data) = 4
    /\ OneCell(tables[1].data[1]) /\ OneCell(tables[1].data[2])
    /\ OneCell(tables[1].data[3]) /\ ~OneCell(tables[1].data[4])
    /\ tables[1].data[2] # tables[1].data[3]
    /\ RowsWith("Possible orphan row detected") = {Some(1)}

DistributionKeywords ==
    {<<"f", "r", "e", "q", "u", "e", "n", "c", "y">>, <<"p", "e", "r", "c", "e", "n", "t">>,
     <<"c", "u", "m", "u", "l", "a", "t", "i", "v", "e">>, <<"s", "c", "o", "r", "e">>,
     <<"m", "a", "r", "k">>}

\* a non-empty table with at least 2 of the distribution keywords in its
\* header list
DistributionKind(t) ==
    /\ t.data # <<>>
    /\ Cardinality({k \in DistributionKeywords : InHeaders(t, k)}) >= 2

\* the issues of the distribution rules
DistributionIssues ==
    IssuesWith("Percent column does not sum to 100.00")
    \o IssuesWith("Negative frequency found")
    \o IssuesWith("Cumulative frequency not monotonic")
    \o IssuesWith("Score outside domain range")

\* C25: percent, frequency, cumulative and score-domain issues are added only
\* for a non-empty table with at least 2 of the keywords frequency, percent,
\* cumulative, score, mark in its header list, orphan-row issues only for a
\* non-empty table with a roster keyword in its header list, and a table of
\* both kinds gets the rules of both
C25_RulesGatedByKind ==
    Validated
    => /\ DistributionIssues # <<>> => DistributionKind(tables[1])
       /\ IssuesWith("Possible orphan row detected") # <<>> => RosterKind(tables[1])
       /\ (DistributionKind(tables[1]) /\ RosterKind(tables[1])
             /\ OrphanRows(tables[1]) # {})
          => IssuesWith("Possible orphan row detected") # <<>>

\* a table of both kinds with a percent issue and an orphan warning
C25_Witness ==
    /\ Validated
    /\ DistributionKind(tables[1]) /\ RosterKind(tables[1])
    /\ IssuesWith("Percent column does not sum to 100.00") # <<>>
    /\ IssuesWith("Possible orphan row detected") # <<>>

\* the keyword lists of the four kinds of column
PercentWords ==
    {<<"p", "e", "r", "c", "e", "n", "t">>,
     <<"p", "e", "r", "c", "e", "n", "t", "a", "g", "e">>, <<"%">>}
CumulativeWords ==
    {<<"c", "u", "m", "u", "l", "a", "t", "i", "v", "e">>, <<"c", "u", "m">>,
     <<"c", "u", "m", ".">>}
FrequencyWords ==
    {<<"f", "r", "e", "q", "u", "e", "n", "c", "y">>, <<"f", "r", "e", "q">>, <<"f">>}
ScoreWords ==
    {<<"s", "c", "o", "r", "e">>, <<"m", "a", "r", "k">>, <<"g", "r", "a", "d", "e">>}

\* the headers (from 1) whose lower-cased text contains a keyword of the list
HeadersWith(t, words) ==
    {i \in 1..Len(t.schema.headers) :
        \E k \in words : contains(lower(t.schema.headers[i]), k)}

\* the located column (from 0): the lowest-index such header, or none
Located(t, words) ==
    IF HeadersWith(t, words) = {} THEN None ELSE Some(Least(HeadersWith(t, words)) - 1)

\* the header of a located column
HeaderOf(t, col) == Some(t.schema.headers[col.val + 1])

\* the issues with the message are at the rows of R (positions from 1) when
\* the column is located and nowhere when it is not, and name its header
IssuesAtColumn(message, t, col, R) ==
    /\ RowsWith(message) = (IF col.some THEN {Some(i - 1) : i \in R} ELSE {})
    /\ \A x \in Range(IssuesWith(message)) : col.some /\ x.column_name = HeaderOf(t, col)

\* the rows of column col whose number is negative; whose number is outside
\* the domain d
NegativeRows(t, col) ==
    {i \in NumericRows(t, col) : TenthsAt(t, col, i) < 0}
OutsideRows(t, col, d) ==
    {i \in NumericRows(t, col) :
        \/ TenthsAt(t, col, i) < 10 * d.min_score
        \/ TenthsAt(t, col, i) > 10 * d.max_score}

\* the numbers of column col do not sum to 100 within the tolerance
OffTotal(t, col) ==
    /\ NumericRows(t, col) # {}
    /\ Magnitude(SumTenths(t, col, NumericRows(t, col)) - 1000) * tolerance.den
         > tolerance.num * 1000

\* C26: in the distribution rules the percent, cumulative, frequency and
\* score column is each the lowest-index header whose lower-cased text
\* contains a keyword of its kind, or none; the four lookups are independent,
\* so one header can be the column of several kinds (a header containing the
\* letter f is a frequency column)
C26_ColumnsLocatedByFirstMatch ==
    (Validated /\ DistributionKind(tables[1]))
    => LET t == tables[1]
           p == Located(t, PercentWords)
           c == Located(t, CumulativeWords)
           f == Located(t, FrequencyWords)
           s == Located(t, ScoreWords)
       IN /\ \A x \in Range(IssuesWith("Percent column does not sum to 100.00")) :
                p.some /\ x.column_name = HeaderOf(t, p)
          /\ IssuesWith("Percent column does not sum to 100.00") # <<>>
               <=> (p.some /\ OffTotal(t, p.val))
          /\ IssuesAtColumn("Negative frequency found", t, f,
                            IF f.some THEN NegativeRows(t, f.val) ELSE {})
          /\ IssuesAtColumn("Cumulative frequency not monotonic", t, c,
                            IF c.some THEN DecreasingRows(t, c.val) ELSE {})
          /\ IssuesAtColumn("Score outside domain range", t, s,
                            IF s.some /\ t.score_domain.some
                            THEN OutsideRows(t, s.val, t.score_domain.val) ELSE {})

\* the header "% of Score" is the percent and the frequency column, and the
\* score column is the header MARK before it
C26_Witness ==
    /\ Validated
    /\ tables[1].schema.headers = <<cMark, cPercentOfScore>>
    /\ tables[1].score_domain.some
    /\ Len(tables[1].data) = 3
    /\ \E x \in Range(IssuesWith("Negative frequency found")) :
          x.column_name = Some(cPercentOfScore)
    /\ \E x \in Range(IssuesWith("Percent column does not sum to 100.00")) :
          x.column_name = Some(cPercentOfScore)
    /\ \E x \in Range(IssuesWith("Score outside domain range")) :
          x.column_name = Some(cMark)

----------------------------------------------------------------------------
(* Properties of the report of several tables *)

\* the messages of the rules, in the order the claim gives the rules
RuleOrder ==
    <<"Duplicate row found", "Inconsistent column count",
      "Table has no detected header", "Percent column does not sum to 100.00",
      "Negative frequency found", "Cumulative frequency not monotonic",
      "Score outside domain range", "Possible orphan row detected">>

\* the place of an issue's rule in that order, and the place of its table in
\* the input (its name is the i-th name)
RuleRank(x) == CHOOSE k \in 1..Len(RuleOrder) : RuleOrder[k] = x.message
TableRank(x) == x.table_name[2]

\* how many tables the loop over zip(tables, table_names) reaches
Reached ==
    IF names = None \/ names.val = <<>> THEN Len(tables)
    ELSE Min(Len(tables), Len(names.val))

\* C24: the tables are validated in input order and each table's rules run
\* in the order duplicate rows, column consistency, header presence,
\* distribution rules (percent, frequency, cumulative, score domain), roster
\* rules: in the report's issues all issues of table i precede those of table
\* i + 1 and the issues of one table are in that rule order
C24_IssuesInTableAndRuleOrder ==
    pc = "validate_tables"
    => /\ \A a \in 1..Len(report.issues) : \A b \in (a + 1)..Len(report.issues) :
             \/ TableRank(report.issues[a]) < TableRank(report.issues[b])
             \/ /\ TableRank(report.issues[a]) = TableRank(report.issues[b])
                /\ RuleRank(report.issues[a]) <= RuleRank(report.issues[b])
       /\ \A x \in Range(report.issues) :
             /\ x.message \in Range(RuleOrder)
             /\ TableRank(x) \in 1..Reached
       /\ \A i \in 1..Reached :
             (\E x \in Range(IssuesWith("Table has no detected header")) : TableRank(x) = i)
             <=> ~tables[i].schema.has_header

\* two tables, the first with issues of six rules and the second, without a
\* detected header, with issues too
C24_Witness ==
    /\ pc = "validate_tables"
    /\ Len(tables) = 2 /\ Reached = 2
    /\ tables[1].schema.has_header /\ ~tables[2].schema.has_header
    /\ Cardinality({RuleRank(x) : x \in {y \in Range(report.issues) : TableRank(y) = 1}}) >= 6
    /\ Cardinality({RuleRank(x) : x \in {y \in Range(report.issues) : TableRank(y) = 2}}) >= 3

\* the highest severity among the issues of the report, PASSED without any
HighestSeverity ==
    IF \E x \in Range(report.issues) : x.severity = "failed" THEN "failed"
    ELSE IF \E x \in Range(report.issues) : x.severity = "warning" THEN "warning"
    ELSE "passed"

\* C29: in every report returned by validate_tables overall_status is the
\* highest severity among its issues (PASSED when there are none) and agrees
\* with the counters: FAILED if and only if tables_failed >= 1, WARNING if and
\* only if tables_failed = 0 and tables_with_warnings >= 1, PASSED otherwise
C29_StatusAgreesWithCounters ==
    pc = "validate_tables"
    => /\ report.overall_status = HighestSeverity
       /\ report.overall_status = "failed" <=> report.tables_failed >= 1
       /\ report.overall_status = "warning"
            <=> (report.tables_failed = 0 /\ report.tables_with_warnings >= 1)
       /\ report.overall_status = "passed"
            <=> (report.tables_failed = 0 /\ report.tables_with_warnings = 0)

\* a report of two tables, one passed and one with warnings only
C29_Witness ==
    /\ pc = "validate_tables"
    /\ Reached = 2
    /\ report.tables_passed = 1
    /\ report.tables_with_warnings = 1
    /\ report.tables_failed = 0
    /\ report.overall_status = "warning"
    /\ report.issues # <<>>

(* Properties of the validation of the tables of segment_by_score_domain *)

\* the issues of the score-domain rule in the report
OutsideIssues ==
    {i \in 1..Len(report.issues) :
        report.issues[i].message = "Score outside domain range"}

\* the tables were emitted by segment_by_score_domain and then validated
EmittedValidated == pc = "validate_tables" /\ tables # <<>>

\* C30: validating the tables emitted by segment_by_score_domain never adds
\* a 'score outside domain range' warning for a table's assigned score_domain
C30_NoOutsideDomainWarning == EmittedValidated => OutsideIssues = {}

\* an emitted table of a distribution, with its score domain, validated
C30_Witness ==
    /\ EmittedValidated
    /\ \E i \in 1..Len(tables) :
          /\ DistributionKind(tables[i])
          /\ tables[i].score_domain.some
          /\ Len(tables[i].data) >= 2

\* when the header names the score column first, or the table is not one of
\* a distribution, the validator reports no score outside the domain
AgreeOnFirstColumn ==
    (EmittedValidated /\ fragments[1].data[1] # rPercentScore) => OutsideIssues = {}
====
